---- MODULE Spec2Model ----
(***************************************************************************)
(* Model of the incident-tracker backend: the incident routes, the         *)
(* IncidentService, the authorization policy table, the UsageService write *)
(* quota and the in-memory repositories behind them.                       *)
(*                                                                         *)
(* A request is one asynchronous task.  Every action below is one          *)
(* synchronous section of a handler, from one await to the next, so that   *)
(* requests running in different slots interleave exactly at the awaits.   *)
(***************************************************************************)
EXTENDS Integers, Sequences, FiniteSets, TLC

(***************************************************************************)
(* Bounds of the model.                                                    *)
(***************************************************************************)
MaxIncidents == 1
MaxTasks == 1
MaxChildren == 1
MaxTicks == 2
MaxLimit == 2
LifecycleLimit == 4
IsolationLimit == 3
MaxOrgRoles == 2
MaxKeys == 1
MaxUsageEvents == 2
MaxAccounts == 1
MaxInvites == 1
MaxTenants == 1
MaxRows == 2
MaxAuditEvents == 2
MaxAuthTicks == 2
MaxResetTokens == 1
MaxAuthEvents == 3

(***************************************************************************)
(* Enumerations of the program.                                            *)
(***************************************************************************)
Tenants == {"tA", "tB"}
Users == {"u1", "u2", "u3"}

ORG_ROLES == {"Owner", "Admin", "Responder", "Viewer", "Billing"}
INCIDENT_ROLES == {"IC", "CL", "OL", "SME"}
INCIDENT_STATUSES ==
  {"declared", "investigating", "mitigating", "monitoring", "resolved", "closed"}
INCIDENT_SEVERITIES == {"SEV1", "SEV2", "SEV3", "SEV4"}
TASK_STATUSES == {"open", "in_progress", "completed"}
STATUS_UPDATE_AUDIENCES == {"internal", "external"}

QUOTA_WINDOW_HOURS == 24

\* The clock advances in steps of one window length.
Times == {k * QUOTA_WINDOW_HOURS : k \in 0..MaxTicks}

\* Incident ids are handed out in order; the id after the last one that can
\* be created is an id no incident ever has.
IncidentIds == 1..(MaxIncidents + 1)
TaskIds == 1..(MaxTasks + 1)

(***************************************************************************)
(* PolicyEngine: src/src/policies/authorization.ts                         *)
(***************************************************************************)
Rule(roles) == [allowedRoles |-> roles, restricted |-> FALSE, responderIncidentRoles |-> {}]
RuleR(roles, incidentRoles) ==
  [allowedRoles |-> roles, restricted |-> TRUE, responderIncidentRoles |-> incidentRoles]

AllRoles == {"Owner", "Admin", "Responder", "Viewer", "Billing"}
Managers == {"Owner", "Admin"}
Operators == {"Owner", "Admin", "Responder"}

POLICY_RULES ==
     ("tenant.read" :> Rule(AllRoles))
  @@ ("tenant.update_settings" :> Rule(Managers))
  @@ ("members.invite" :> Rule(Managers))
  @@ ("members.remove" :> Rule(Managers))
  @@ ("members.change_role" :> Rule(Managers))
  @@ ("services.create" :> Rule(Operators))
  @@ ("services.update" :> Rule(Operators))
  @@ ("services.archive" :> Rule(Operators))
  @@ ("incidents.create" :> Rule(Operators))
  @@ ("incidents.read" :> Rule({"Owner", "Admin", "Responder", "Viewer"}))
  @@ ("incidents.update" :> Rule(Operators))
  @@ ("incidents.change_severity" :> Rule(Operators))
  @@ ("incidents.resolve" :> Rule(Operators))
  @@ ("incidents.close" :> Rule(Operators))
  @@ ("incidents.assign_incident_roles" :> RuleR(Operators, {"IC"}))
  @@ ("timeline.add_event" :> Rule(Operators))
  @@ ("updates.publish_internal" :> Rule(Operators))
  @@ ("updates.publish_external" :> RuleR(Operators, {"IC", "CL"}))
  @@ ("tasks.create" :> Rule(Operators))
  @@ ("tasks.assign" :> Rule(Operators))
  @@ ("postmortems.create" :> Rule(Operators))
  @@ ("postmortems.edit" :> Rule(Operators))
  @@ ("postmortems.publish" :> RuleR(Operators, {"IC"}))
  @@ ("api_keys.manage" :> Rule(Managers))
  @@ ("webhooks.manage" :> Rule(Managers))
  @@ ("audit_log.read" :> Rule(Operators))
  @@ ("exports.create" :> Rule(Managers))
  @@ ("billing.read" :> Rule({"Owner", "Billing"}))
  @@ ("billing.manage_plan" :> Rule({"Owner", "Billing"}))

POLICY_ACTIONS == DOMAIN POLICY_RULES

hasRequiredIncidentRole_everyRole(role, rule, incidentRoles) ==
  IF role # "Responder" THEN TRUE
  ELSE IF ~rule.restricted THEN TRUE
  ELSE IF incidentRoles = {} THEN FALSE
  ELSE incidentRoles \subseteq rule.responderIncidentRoles

\* incidentRoles is the set of incident roles of the resource context; the
\* empty set stands for an absent context and for an empty list alike.
hasRequiredIncidentRole(role, rule, incidentRoles) ==
  IF role # "Responder" THEN TRUE
  ELSE IF ~rule.restricted THEN TRUE
  ELSE IF incidentRoles = {} THEN FALSE
  ELSE incidentRoles \cap rule.responderIncidentRoles # {}

authorize_firstRoleOnly(action, orgRoles, incidentRoles) ==
  LET rule == POLICY_RULES[action]
  IN /\ Len(orgRoles) > 0
     /\ orgRoles[1] \in rule.allowedRoles
     /\ hasRequiredIncidentRole(orgRoles[1], rule, incidentRoles)

\* orgRoles is the sequence of org roles of the authorization context.
authorize(action, orgRoles, incidentRoles) ==
  LET rule == POLICY_RULES[action]
  IN \E i \in 1..Len(orgRoles) :
        /\ orgRoles[i] \in rule.allowedRoles
        /\ hasRequiredIncidentRole(orgRoles[i], rule, incidentRoles)

\* The authorization context built from a membership holds its one role.
membershipAuthContext(role) == <<role>>

(***************************************************************************)
(* IncidentLifecycle: the transition table of the incident service.        *)
(***************************************************************************)
STATUS_TRANSITIONS_closedReopens ==
     ("declared" :> {"investigating", "mitigating", "monitoring", "resolved"})
  @@ ("investigating" :> {"mitigating", "monitoring", "resolved"})
  @@ ("mitigating" :> {"monitoring", "resolved"})
  @@ ("monitoring" :> {"resolved"})
  @@ ("resolved" :> {"closed"})
  @@ ("closed" :> {"resolved"})

STATUS_TRANSITIONS ==
     ("declared" :> {"investigating", "mitigating", "monitoring", "resolved"})
  @@ ("investigating" :> {"mitigating", "monitoring", "resolved"})
  @@ ("mitigating" :> {"monitoring", "resolved"})
  @@ ("monitoring" :> {"resolved"})
  @@ ("resolved" :> {"closed"})
  @@ ("closed" :> {})

ensureAllowedStatusTransition_anyForward(current, next) ==
  current = next \/ current # "closed"

\* TRUE when the call returns, FALSE when it throws
\* INCIDENT_STATUS_TRANSITION_INVALID.
ensureAllowedStatusTransition(current, next) ==
  IF current = next THEN TRUE ELSE next \in STATUS_TRANSITIONS[current]

(***************************************************************************)
(* State.                                                                  *)
(***************************************************************************)
VARIABLES
  memberships,       \* TenantRepository: (tenantId, userId) -> role or "null"
  incidentsById,     \* IncidentRepository: incident id -> incident
  tasks,             \* IncidentRepository: task id -> task
  timeline,          \* IncidentRepository: timeline events
  statusUpdates,     \* IncidentRepository: status updates
  quotasByTenantId,  \* UsageRepository: tenant -> dailyWriteLimit, 0 = no row
  usageEvents,       \* UsageRepository: tenant -> createdAt -> number of events
  defaultDailyWriteLimit, \* UsageServiceConfig
  now,               \* the wall clock, in hours
  requests,          \* the requests in flight, one per slot
  policyCall,        \* a call of authorize: its inputs and its decisions
  apiKeysById,       \* ApiKeyRepository: api key id -> api key
  http,              \* a request on its way through the middleware chain
  backend,           \* the repository implementation: "memory" or "postgres"
  rowSecurity,       \* whether the database enforces the row-security policies
  repoCall,          \* the last repository call and what it returned
  serviceAccountsById, \* ApiKeyRepository: service account id -> account
  tenantsById,       \* TenantRepository: the ids of the tenants
  invitesById,       \* TenantRepository: invite id -> invite
  membershipRows,    \* the memberships table of the database
  activeTenantByUser, \* the session of each user: its activeTenantId
  accepts,           \* the invite acceptances in flight, one per slot
  tenantCall,        \* the last step of a tenant route and what it answered
  walk,              \* a client following the cursors of a list endpoint
  auditLogEvents,    \* AuditLogRepository: the events, in order of creation
  consoleErrors,     \* the number of lines console.error has written
  usersById,         \* AuthRepository: user id -> user
  passwordResetTokensByHash, \* AuthRepository: token hash -> reset token
  authNow,           \* the clock the auth routes read
  authCalls,         \* the auth requests in flight, one per slot
  authTrail          \* what the callers of the auth routes have seen so far

tenancyVars == <<tenantsById, invitesById, membershipRows, activeTenantByUser,
                 accepts, tenantCall>>

\* The state of the platform services beside the api keys.
\* The list endpoints' client and the audit sink.
sinkVars == <<walk, auditLogEvents, consoleErrors>>

\* The accounts, their reset tokens and the auth routes' requests.
authVars == <<usersById, passwordResetTokensByHash, authNow, authCalls,
              authTrail>>

platformVars == <<serviceAccountsById, tenancyVars, sinkVars, authVars>>

laneVars == <<policyCall, apiKeysById, http, backend, rowSecurity, repoCall,
              platformVars>>

vars == <<memberships, incidentsById, tasks, timeline, statusUpdates,
          quotasByTenantId, usageEvents, defaultDailyWriteLimit, now, requests,
          laneVars>>

Slots == {1, 2}

Max(a, b) == IF a >= b THEN a ELSE b

NullIncident == [tenantId |-> "null", status |-> "null", severity |-> "null"]
NullTask == [incidentId |-> 0, tenantId |-> "null", status |-> "null"]
NoSummary == [used |-> 0, limit |-> 0, remaining |-> 0]
NoResult == [status |-> 0, code |-> "none", limit |-> 0, used |-> 0,
             from |-> "none", to |-> "none", summary |-> NoSummary]

\* incidentRoles are the incident roles the caller holds on the incident of
\* the request; no route or service method reads them.
Op(kind, incidentId, taskId, status, severity, audience, valid) ==
  [kind |-> kind, incidentId |-> incidentId, taskId |-> taskId, status |-> status,
   severity |-> severity, audience |-> audience, valid |-> valid,
   incidentRoles |-> {}]

NoOp == Op("none", 0, 0, "undefined", "undefined", "undefined", TRUE)

IdleRequest ==
  [pc |-> "idle", userId |-> "none", tenantId |-> "none", op |-> NoOp,
   membership |-> "null", current |-> NullIncident, limit |-> 0, used |-> 0,
   summary |-> NoSummary, targetId |-> 0, result |-> NoResult, trace |-> <<>>]

\* The routes that call consumeWriteQuota before anything else.
MutatingKinds ==
  {"createIncident", "updateIncident", "addTimelineEvent", "createTask",
   "updateTask", "createStatusUpdate"}

\* Seeded memberships: every org role, and a non-member, occur.
SeedMemberships ==
     (<<"tA", "u1">> :> "Owner")  @@ (<<"tB", "u1">> :> "Viewer")
  @@ (<<"tA", "u2">> :> "Responder") @@ (<<"tB", "u2">> :> "Admin")
  @@ (<<"tA", "u3">> :> "Billing") @@ (<<"tB", "u3">> :> "null")

(***************************************************************************)
(* In-memory repositories.                                                 *)
(***************************************************************************)
getMembership(tenantId, userId) ==
  IF <<tenantId, userId>> \in DOMAIN memberships
  THEN memberships[<<tenantId, userId>>] ELSE "null"

findIncidentById_byIdAlone(tenantId, incidentId) ==
  IF incidentId \notin DOMAIN incidentsById
  THEN NullIncident
  ELSE incidentsById[incidentId]

findIncidentById(tenantId, incidentId) ==
  IF incidentId \notin DOMAIN incidentsById
     \/ incidentsById[incidentId].tenantId # tenantId
  THEN NullIncident
  ELSE incidentsById[incidentId]

findTaskById(tenantId, incidentId, taskId) ==
  IF /\ taskId \in DOMAIN tasks
     /\ tasks[taskId].incidentId = incidentId
     /\ tasks[taskId].tenantId = tenantId
  THEN tasks[taskId]
  ELSE NullTask

RECURSIVE SumOver(_, _)
SumOver(S, f) ==
  IF S = {} THEN 0
  ELSE LET x == CHOOSE y \in S : TRUE IN f[x] + SumOver(S \ {x}, f)

sumUsageSince_afterOnly(tenantId, since) ==
  SumOver({t \in Times : t > since}, usageEvents[tenantId])

\* Every usage event has amount 1, so the sum of the amounts is the count.
sumUsageSince(tenantId, since) ==
  SumOver({t \in Times : t >= since}, usageEvents[tenantId])

windowStart == now - QUOTA_WINDOW_HOURS

quotaExceeded_offByOne(used, limit) == used > limit

\* consumeWriteQuota rejects when the read sum plus one exceeds the limit.
quotaExceeded(used, limit) == used + 1 > limit

usageSummary(used, limit) ==
  [used |-> used, limit |-> limit, remaining |-> Max(limit - used, 0)]

\* ensureQuota: the tenant's row, created with the default limit when absent.
ensureQuota(quotas, tenantId) ==
  IF quotas[tenantId] # 0 THEN quotas
  ELSE [quotas EXCEPT ![tenantId] = defaultDailyWriteLimit]

createUsageEvent(events, tenantId, createdAt) ==
  [events EXCEPT ![tenantId][createdAt] = @ + 1]

createIncident(store, tenantId, severity) ==
  Append(store, [tenantId |-> tenantId, status |-> "declared", severity |-> severity])

updateIncident(store, tenantId, incidentId, input) ==
  IF incidentId \notin DOMAIN store \/ store[incidentId].tenantId # tenantId
  THEN store
  ELSE [store EXCEPT
          ![incidentId].severity =
             IF input.severity # "undefined" THEN input.severity ELSE @,
          ![incidentId].status =
             IF input.status # "undefined" THEN input.status ELSE @]

createTask(store, tenantId, incidentId) ==
  Append(store, [incidentId |-> incidentId, tenantId |-> tenantId, status |-> "open"])

updateTask(store, tenantId, incidentId, taskId, input) ==
  IF \/ taskId \notin DOMAIN store
     \/ store[taskId].incidentId # incidentId
     \/ store[taskId].tenantId # tenantId
  THEN store
  ELSE [store EXCEPT ![taskId].status =
          IF input.status # "undefined" THEN input.status ELSE @]

createTimelineEvent(store, tenantId, incidentId) ==
  Append(store, [incidentId |-> incidentId, tenantId |-> tenantId])

createStatusUpdate(store, tenantId, incidentId, audience) ==
  Append(store, [incidentId |-> incidentId, tenantId |-> tenantId, audience |-> audience])

(***************************************************************************)
(* IncidentService and UsageService: what each method asserts.             *)
(***************************************************************************)
requiredActions_severityUnchecked(op) ==
  CASE op.kind = "createIncident" -> <<"incidents.create">>
    [] op.kind = "updateIncident" ->
         <<IF op.status \in {"resolved", "closed"}
           THEN "incidents.resolve" ELSE "incidents.update">>
    [] op.kind = "getUsageSummary" -> <<"billing.read">>
    [] OTHER -> <<"incidents.read">>

\* The policy actions a service method asserts, in the order it asserts them.
requiredActions(op) ==
  CASE op.kind = "createIncident" -> <<"incidents.create">>
    [] op.kind = "updateIncident" ->
         <<IF op.status \in {"resolved", "closed"}
           THEN "incidents.resolve" ELSE "incidents.update">>
         \o (IF op.severity # "undefined"
             THEN <<"incidents.change_severity">> ELSE <<>>)
    [] op.kind = "addTimelineEvent" -> <<"timeline.add_event">>
    [] op.kind = "createTask" -> <<"tasks.create">>
    [] op.kind = "updateTask" -> <<"tasks.assign">>
    [] op.kind = "createStatusUpdate" ->
         <<IF op.audience = "external"
           THEN "updates.publish_external" ELSE "updates.publish_internal">>
    [] op.kind = "getUsageSummary" -> <<"billing.read">>
    [] OTHER -> <<"incidents.read">>

\* assertAuthorized: the service passes no resource context.
assertAuthorized_alwaysAllowed(action, role) == TRUE

assertAuthorized(action, role) == authorize(action, membershipAuthContext(role), {})

\* Index of the first asserted action that throws PERMISSION_DENIED, 0 if none.
firstDenied(actions, role) ==
  IF \A i \in 1..Len(actions) : assertAuthorized(actions[i], role)
  THEN 0
  ELSE CHOOSE i \in 1..Len(actions) :
         /\ ~assertAuthorized(actions[i], role)
         /\ \A j \in 1..(i - 1) : assertAuthorized(actions[j], role)

routeFirstStep_quotaOnCreateOnly(kind) ==
  IF kind = "createIncident" THEN "quota_read" ELSE "membership"

\* The first step of a route handler after the principal is resolved.
routeFirstStep(kind) ==
  IF kind \in MutatingKinds THEN "quota_read" ELSE "membership"

\* The step of a service method after the membership lookup.
afterMembership(kind) ==
  IF kind \in {"createIncident", "getUsageSummary"} THEN "apply" ELSE "find"

successStatus(kind) ==
  IF kind \in {"createIncident", "addTimelineEvent", "createTask", "createStatusUpdate"}
  THEN 201 ELSE 200

Failure(status, code) == [NoResult EXCEPT !.status = status, !.code = code]

InFlight(kind) ==
  Cardinality({r \in Slots : requests[r].op.kind = kind
                              /\ requests[r].pc \notin {"idle", "done"}})

(***************************************************************************)
(* Initial state: seeded memberships, empty repositories, no request.      *)
(***************************************************************************)
InitProgram(limits) ==
  /\ memberships = SeedMemberships
  /\ incidentsById = <<>>
  /\ tasks = <<>>
  /\ timeline = <<>>
  /\ statusUpdates = <<>>
  /\ quotasByTenantId = [t \in Tenants |-> 0]
  /\ usageEvents = [t \in Tenants |-> [c \in Times |-> 0]]
  /\ defaultDailyWriteLimit \in limits
  /\ now = 0
  /\ requests = [r \in Slots |-> IdleRequest]

\* No call of authorize has been made.
NoPolicyCall ==
  [action |-> "none", orgRoles |-> <<>>, incidentRoles |-> {},
   decision |-> "none", repeated |-> "none"]

\* request.authContext before any middleware has set it.
NoAuthContext ==
  [authType |-> "undefined", userId |-> "none", tenantId |-> "null",
   apiKeyId |-> 0, scopes |-> {}]

\* No request is in the middleware chain.  header 0 is an absent x-api-key
\* header; found 0 is a null auth record.
IdleHttp ==
  [pc |-> "idle", route |-> "incidents", method |-> "GET", header |-> 0,
   sessionUserId |-> "none", activeTenantId |-> "null", csrf |-> FALSE,
   found |-> 0, revoked |-> FALSE, owner |-> "null", markFailed |-> FALSE,
   authContext |-> NoAuthContext,
   status |-> 0, code |-> "none", userId |-> "none", tenantId |-> "null"]

\* The service accounts the app starts with, each owned by a member of its
\* tenant.
SeedServiceAccounts ==
  <<[tenantId |-> "tA", ownerUserId |-> "u1"],
    [tenantId |-> "tB", ownerUserId |-> "u2"]>>

AcceptSlots == {1, 2}

\* No acceptance is in flight.  inviteId 0 is no invite row; at is the time
\* the service passes as now.
IdleAccept ==
  [pc |-> "idle", userId |-> "none", token |-> 0, at |-> 0, inviteId |-> 0,
   status |-> 0, code |-> "none"]

NoTenantCall ==
  [op |-> "none", userId |-> "none", tenantId |-> "null", status |-> 0,
   code |-> "none"]

\* The memberships table holding the rows of SeedMemberships.
SeedMembershipRows ==
  {[tenantId |-> k[1], userId |-> k[2], role |-> SeedMemberships[k]] :
     k \in {x \in DOMAIN SeedMemberships : SeedMemberships[x] # "null"}}

InitTenancy ==
  /\ tenantsById = Tenants
  /\ invitesById = <<>>
  /\ membershipRows = SeedMembershipRows
  /\ activeTenantByUser = [u \in Users |-> "null"]
  /\ accepts = [r \in AcceptSlots |-> IdleAccept]
  /\ tenantCall = NoTenantCall

\* No cursor: the query has none, or nextCursor is null.
NoCursor == [createdAt |-> -1, id |-> 0]

\* No list has been asked for yet.
IdleWalk == [pc |-> "idle", kind |-> "none", rows |-> {}, limit |-> 0,
             cursor |-> NoCursor, page |-> <<>>, seen |-> <<>>,
             nextCursor |-> NoCursor]

InitSinks ==
  /\ walk = IdleWalk
  /\ auditLogEvents = <<>>
  /\ consoleErrors = 0

\* The accounts the auth routes know: one user who signed up with password
\* "p1".  NoDate is a null date.
AuthUsers == {"u1"}
AuthSlots == {1, 2}
NoDate == -1

SeedUser ==
  [passwordHash |-> "argon2:p1", passwordUpdatedAt |-> 0,
   failedLoginAttempts |-> 0, lockoutUntil |-> NoDate]

\* No auth request is in the slot.  user is the row findUserByEmail
\* returned, returned what the service method returned to the route.
IdleAuthCall ==
  [pc |-> "idle", op |-> "none", email |-> "none", password |-> "none",
   token |-> 0, at |-> 0, userId |-> "null", user |-> SeedUser,
   returned |-> "none", status |-> 0, code |-> "none"]

InitAuth ==
  /\ usersById = [u \in AuthUsers |-> SeedUser]
  /\ passwordResetTokensByHash = <<>>
  /\ authNow = 0
  /\ authCalls = [r \in AuthSlots |-> IdleAuthCall]
  /\ authTrail = [wrong |-> [u \in AuthUsers |-> 0], issued |-> 0,
                  resets |-> <<>>]

InitPlatform ==
  /\ serviceAccountsById = SeedServiceAccounts
  /\ InitTenancy
  /\ InitSinks
  /\ InitAuth

NoRepoCall == [op |-> "none", tenantId |-> "null", id |-> 0, sum |-> 0, ids |-> {}]

\* The app built on the in-memory repositories, with no api key yet.
InitKeys ==
  /\ apiKeysById = <<>>
  /\ http = IdleHttp
  /\ InitPlatform
  /\ backend = "memory"
  /\ rowSecurity = FALSE
  /\ repoCall = NoRepoCall

InitWith(limits) ==
  /\ InitProgram(limits)
  /\ InitKeys
  /\ policyCall = NoPolicyCall

\* The principals a request can carry: a session's active tenant is set only
\* by tenant creation, invite acceptance or a switch, all of which leave the
\* user a member of it.
Principals == {p \in Tenants \X Users : memberships[p] # "null"}

Finish(r, result, steps) ==
  requests' = [requests EXCEPT ![r].pc = "done", ![r].result = result,
                               ![r].trace = @ \o steps]

(***************************************************************************)
(* Route handlers and the services they call, one action per synchronous   *)
(* section.                                                                *)
(***************************************************************************)
\* requireAuthenticatedUser, getAuthenticatedUserId, getResolvedTenantId:
\* a request arrives in a free slot with its principal resolved.
RouteBegin(r, principals, ops) ==
  /\ requests[r].pc \in {"idle", "done"}
  /\ \E p \in principals, op \in ops :
       /\ op.kind = "createIncident" =>
            Len(incidentsById) + InFlight("createIncident") < MaxIncidents
       /\ op.kind = "createTask" => Len(tasks) + InFlight("createTask") < MaxTasks
       /\ op.kind = "addTimelineEvent" =>
            Len(timeline) + InFlight("addTimelineEvent") < MaxChildren
       /\ op.kind = "createStatusUpdate" =>
            Len(statusUpdates) + InFlight("createStatusUpdate") < MaxChildren
       /\ requests' = [requests EXCEPT ![r] =
            [IdleRequest EXCEPT !.pc = routeFirstStep(op.kind),
                                !.tenantId = p[1], !.userId = p[2], !.op = op,
                                !.trace = <<"principal">>]]
  /\ UNCHANGED <<laneVars, memberships, incidentsById, tasks, timeline, statusUpdates,
                 quotasByTenantId, usageEvents, defaultDailyWriteLimit, now>>

\* UsageService.consumeWriteQuota up to the await of sumUsageSince.
ConsumeRead(r) ==
  LET q == requests[r]
      quotas == ensureQuota(quotasByTenantId, q.tenantId)
  IN /\ q.pc = "quota_read"
     /\ quotasByTenantId' = quotas
     /\ requests' = [requests EXCEPT
          ![r].pc = "quota_write",
          ![r].limit = quotas[q.tenantId],
          ![r].used = sumUsageSince(q.tenantId, windowStart)]
     /\ UNCHANGED <<laneVars, memberships, incidentsById, tasks, timeline, statusUpdates,
                    usageEvents, defaultDailyWriteLimit, now>>

ConsumeWrite_compareAndSwap(r) ==
  LET q == requests[r]
      current == sumUsageSince(q.tenantId, windowStart)
  IN /\ q.pc = "quota_write"
     /\ IF quotaExceeded(current, q.limit)
        THEN /\ Finish(r, [Failure(429, "QUOTA_EXCEEDED") EXCEPT
                             !.limit = q.limit, !.used = current], <<>>)
             /\ UNCHANGED usageEvents
        ELSE /\ usageEvents' = createUsageEvent(usageEvents, q.tenantId, now)
             /\ requests' = [requests EXCEPT
                  ![r].pc = "membership",
                  ![r].summary = usageSummary(current + 1, q.limit),
                  ![r].trace = @ \o <<"quota">>]
     /\ UNCHANGED <<laneVars, memberships, incidentsById, tasks, timeline, statusUpdates,
                    quotasByTenantId, defaultDailyWriteLimit, now>>

\* UsageService.consumeWriteQuota from the limit check to the usage event.
ConsumeWrite(r) ==
  LET q == requests[r]
  IN /\ q.pc = "quota_write"
     /\ IF quotaExceeded(q.used, q.limit)
        THEN /\ Finish(r, [Failure(429, "QUOTA_EXCEEDED") EXCEPT
                             !.limit = q.limit, !.used = q.used], <<>>)
             /\ UNCHANGED usageEvents
        ELSE /\ usageEvents' = createUsageEvent(usageEvents, q.tenantId, now)
             /\ requests' = [requests EXCEPT
                  ![r].pc = "membership",
                  ![r].summary = usageSummary(q.used + 1, q.limit),
                  ![r].trace = @ \o <<"quota">>]
     /\ UNCHANGED <<laneVars, memberships, incidentsById, tasks, timeline, statusUpdates,
                    quotasByTenantId, defaultDailyWriteLimit, now>>

requireMembership_asAuthenticated(tenantId, userId) ==
  IF http.authContext.authType = "api_key" THEN http.owner
  ELSE getMembership(tenantId, userId)

\* IncidentService.requireMembership: the membership of the principal as
\* the tenant repository holds it now, "null" for TENANT_NOT_FOUND.
requireMembership(tenantId, userId) == getMembership(tenantId, userId)

\* The route parses the request, then the service method looks the
\* membership up (requireMembership).
ServiceMembership(r) ==
  LET q == requests[r]
      role == requireMembership(q.tenantId, q.userId)
  IN /\ q.pc = "membership"
     /\ IF ~q.op.valid
        THEN Finish(r, Failure(400, "VALIDATION_ERROR"), <<"parse">>)
        ELSE IF role = "null"
        THEN Finish(r, Failure(404, "TENANT_NOT_FOUND"), <<"parse", "membership">>)
        ELSE requests' = [requests EXCEPT
               ![r].pc = afterMembership(q.op.kind),
               ![r].membership = role,
               ![r].trace = @ \o <<"parse", "membership">>]
     /\ UNCHANGED <<laneVars, memberships, incidentsById, tasks, timeline, statusUpdates,
                    quotasByTenantId, usageEvents, defaultDailyWriteLimit, now>>

\* The service method looks the incident up in the caller's tenant.
ServiceFind(r) ==
  LET q == requests[r]
      incident == findIncidentById(q.tenantId, q.op.incidentId)
  IN /\ q.pc = "find"
     /\ IF incident = NullIncident
        THEN Finish(r, Failure(404, "INCIDENT_NOT_FOUND"), <<>>)
        ELSE requests' = [requests EXCEPT
               ![r].pc = IF q.op.kind = "updateTask" THEN "find_task" ELSE "apply",
               ![r].current = incident,
               ![r].trace = @ \o <<"exists">>]
     /\ UNCHANGED <<laneVars, memberships, incidentsById, tasks, timeline, statusUpdates,
                    quotasByTenantId, usageEvents, defaultDailyWriteLimit, now>>

\* IncidentService.updateTask looks the task up under the incident.
ServiceFindTask(r) ==
  LET q == requests[r]
      task == findTaskById(q.tenantId, q.op.incidentId, q.op.taskId)
  IN /\ q.pc = "find_task"
     /\ IF task = NullTask
        THEN Finish(r, Failure(404, "TASK_NOT_FOUND"), <<>>)
        ELSE requests' = [requests EXCEPT
               ![r].pc = "apply",
               ![r].trace = @ \o <<"task_exists">>]
     /\ UNCHANGED <<laneVars, memberships, incidentsById, tasks, timeline, statusUpdates,
                    quotasByTenantId, usageEvents, defaultDailyWriteLimit, now>>

\* The rest of the service method: for an incident update the transition
\* check, then the permission assertions, then the repository call.
ServiceApply(r) ==
  LET q == requests[r]
      op == q.op
      checked == op.kind = "updateIncident" /\ op.status # "undefined"
      invalid == checked /\ ~ensureAllowedStatusTransition(q.current.status, op.status)
      pre == IF checked THEN <<"transition">> ELSE <<>>
      actions == requiredActions(op)
      denied == firstDenied(actions, q.membership)
      asserted == IF denied = 0 THEN actions ELSE SubSeq(actions, 1, denied)
      rejected == invalid \/ denied # 0
      quotas == ensureQuota(quotasByTenantId, q.tenantId)
  IN /\ q.pc = "apply"
     /\ incidentsById' =
          IF rejected THEN incidentsById
          ELSE IF op.kind = "createIncident"
          THEN createIncident(incidentsById, q.tenantId, op.severity)
          ELSE IF op.kind = "updateIncident"
          THEN updateIncident(incidentsById, q.tenantId, op.incidentId, op)
          ELSE incidentsById
     /\ tasks' =
          IF rejected THEN tasks
          ELSE IF op.kind = "createTask"
          THEN createTask(tasks, q.tenantId, op.incidentId)
          ELSE IF op.kind = "updateTask"
          THEN updateTask(tasks, q.tenantId, op.incidentId, op.taskId, op)
          ELSE tasks
     /\ timeline' =
          IF ~rejected /\ op.kind = "addTimelineEvent"
          THEN createTimelineEvent(timeline, q.tenantId, op.incidentId)
          ELSE timeline
     /\ statusUpdates' =
          IF ~rejected /\ op.kind = "createStatusUpdate"
          THEN createStatusUpdate(statusUpdates, q.tenantId, op.incidentId, op.audience)
          ELSE statusUpdates
     /\ quotasByTenantId' =
          IF ~rejected /\ op.kind = "getUsageSummary" THEN quotas ELSE quotasByTenantId
     /\ IF invalid
        THEN Finish(r, [Failure(400, "INCIDENT_STATUS_TRANSITION_INVALID") EXCEPT
                          !.from = q.current.status, !.to = op.status], pre)
        ELSE IF denied # 0
        THEN Finish(r, Failure(403, "PERMISSION_DENIED"), pre \o asserted)
        ELSE IF op.kind \in MutatingKinds
        THEN requests' = [requests EXCEPT
               ![r].pc = "audit",
               ![r].targetId =
                  IF op.kind = "createIncident" THEN Len(incidentsById) + 1
                  ELSE IF op.kind = "createTask" THEN Len(tasks) + 1
                  ELSE IF op.kind = "updateTask" THEN op.taskId
                  ELSE op.incidentId,
               ![r].trace = @ \o pre \o asserted \o <<"write">>]
        ELSE Finish(r, [NoResult EXCEPT
                          !.status = 200, !.code = "OK",
                          !.summary =
                             IF op.kind = "getUsageSummary"
                             THEN usageSummary(sumUsageSince(q.tenantId, windowStart),
                                               quotas[q.tenantId])
                             ELSE NoSummary],
                    pre \o asserted \o <<"read">>)
     /\ UNCHANGED <<laneVars, memberships, usageEvents, defaultDailyWriteLimit, now>>

\* After the service method returned, a mutating route records the audit
\* event (recordSafely) and answers; the audit log itself is followed by
\* AuditRecordSafely.
AuditRecord(r) ==
  LET q == requests[r]
  IN /\ q.pc = "audit"
     /\ Finish(r, [NoResult EXCEPT !.status = successStatus(q.op.kind), !.code = "OK"],
               <<"audit">>)
     /\ UNCHANGED <<laneVars, memberships, incidentsById, tasks, timeline, statusUpdates,
                    quotasByTenantId, usageEvents, defaultDailyWriteLimit, now>>

\* The event a mutating route hands to the audit service.
AuditEvent(q) ==
  [action |-> q.op.kind, actorUserId |-> q.userId, tenantId |-> q.tenantId,
   targetId |-> q.targetId]

\* AuditService.record: createEvent stores the event, or rejects.
record(events, event, fails) ==
  IF fails THEN [rejected |-> TRUE, events |-> events]
  ELSE [rejected |-> FALSE, events |-> Append(events, event)]

recordSafely_rethrows(events, errors, event, fails) ==
  [raised |-> record(events, event, fails).rejected,
   events |-> record(events, event, fails).events,
   errors |-> errors]

\* AuditService.recordSafely: a rejection is caught and written to
\* console.error.
recordSafely(events, errors, event, fails) ==
  [raised |-> FALSE,
   events |-> record(events, event, fails).events,
   errors |-> IF record(events, event, fails).rejected THEN errors + 1 ELSE errors]

\* The end of a mutating route with its audit log: recordSafely, then the
\* response, or the error handler if recordSafely raised.
AuditRecordSafely(r, fails) ==
  LET q == requests[r]
      audited == recordSafely(auditLogEvents, consoleErrors, AuditEvent(q), fails)
  IN /\ q.pc = "audit"
     /\ auditLogEvents' = audited.events
     /\ consoleErrors' = audited.errors
     /\ IF audited.raised
        THEN Finish(r, Failure(500, "INTERNAL_ERROR"), <<"audit">>)
        ELSE Finish(r, [NoResult EXCEPT !.status = successStatus(q.op.kind),
                                        !.code = "OK"], <<"audit">>)
     /\ UNCHANGED <<policyCall, apiKeysById, http, backend, rowSecurity, repoCall,
                    serviceAccountsById, tenancyVars, walk, authVars, memberships,
                    incidentsById, tasks, timeline, statusUpdates,
                    quotasByTenantId, usageEvents, defaultDailyWriteLimit, now>>

\* One window length passes.
Tick ==
  /\ now + QUOTA_WINDOW_HOURS \in Times
  /\ now' = now + QUOTA_WINDOW_HOURS
  /\ UNCHANGED <<laneVars, memberships, incidentsById, tasks, timeline, statusUpdates,
                 quotasByTenantId, usageEvents, defaultDailyWriteLimit, requests>>

\* One window length passes while no request is in flight.
TickBetween ==
  /\ \A r \in Slots : requests[r].pc \in {"idle", "done"}
  /\ Tick

(***************************************************************************)
(* The requests each specification sends.                                  *)
(***************************************************************************)
Create(severity) == Op("createIncident", 0, 0, "undefined", severity, "undefined", TRUE)
OnIncident(kind, i) == Op(kind, i, 0, "undefined", "undefined", "undefined", TRUE)
Update(i, status, severity) ==
  Op("updateIncident", i, 0, status, severity, "undefined", TRUE)

IsolationOps ==
  {Create("SEV2")}
  \cup {OnIncident(k, i) :
          k \in {"getIncident", "addTimelineEvent", "listTimelineEvents", "createTask",
                 "listTasks", "listStatusUpdates"},
          i \in IncidentIds}
  \cup {Update(i, s, "undefined") : i \in IncidentIds, s \in {"undefined", "closed"}}
  \cup {Op("updateTask", i, t, "completed", "undefined", "undefined", TRUE) :
          i \in IncidentIds, t \in TaskIds}
  \cup {Op("createStatusUpdate", i, 0, "undefined", "undefined", a, TRUE) :
          i \in IncidentIds, a \in STATUS_UPDATE_AUDIENCES}

LifecycleOps ==
  {Create("SEV2")}
  \cup {Update(i, s, v) : i \in IncidentIds,
                          s \in INCIDENT_STATUSES \cup {"undefined"},
                          v \in {"undefined", "SEV1"}}

QuotaOps ==
  {Op("updateIncident", i, 0, "undefined", "undefined", "undefined", v) :
     i \in IncidentIds, v \in BOOLEAN}
  \cup {Create("SEV2")}
  \cup {Op("getUsageSummary", 0, 0, "undefined", "undefined", "undefined", TRUE)}

ConcurrentOps ==
  {Create("SEV2"), Update(1, "undefined", "undefined"),
   Op("getUsageSummary", 0, 0, "undefined", "undefined", "undefined", TRUE)}

InTenant(t) == {p \in Principals : p[1] = t}

(***************************************************************************)
(* Specifications.                                                         *)
(***************************************************************************)
\* One request at a time, every incident operation, both tenants.
NextIsolation ==
  \/ RouteBegin(1, Principals, IsolationOps)
  \/ ConsumeRead(1)
  \/ ConsumeWrite(1)
  \/ ServiceMembership(1)
  \/ ServiceFind(1)
  \/ ServiceFindTask(1)
  \/ ServiceApply(1)
  \/ AuditRecord(1)

SpecIsolation == InitWith({IsolationLimit}) /\ [][NextIsolation]_vars

\* One request at a time, every incident update, one tenant.
NextLifecycle ==
  \/ RouteBegin(1, InTenant("tA"), LifecycleOps)
  \/ ConsumeRead(1)
  \/ ConsumeWrite(1)
  \/ ServiceMembership(1)
  \/ ServiceFind(1)
  \/ ServiceApply(1)
  \/ AuditRecord(1)

SpecLifecycle == InitWith({LifecycleLimit}) /\ [][NextLifecycle]_vars

\* One request at a time while the clock advances, every limit.
NextQuotaSeq ==
  \/ RouteBegin(1, InTenant("tA"), QuotaOps)
  \/ ConsumeRead(1)
  \/ ConsumeWrite(1)
  \/ ServiceMembership(1)
  \/ ServiceFind(1)
  \/ ServiceApply(1)
  \/ AuditRecord(1)
  \/ TickBetween

SpecQuotaSeq == InitWith(1..MaxLimit) /\ [][NextQuotaSeq]_vars

\* Requests of one tenant running concurrently.
Next ==
  \/ \E r \in Slots :
       \/ RouteBegin(r, InTenant("tA"), ConcurrentOps)
       \/ ConsumeRead(r)
       \/ ConsumeWrite(r)
       \/ ServiceMembership(r)
       \/ ServiceFind(r)
       \/ ServiceApply(r)
       \/ AuditRecord(r)
  \/ Tick

Spec == InitWith(1..MaxLimit) /\ [][Next]_vars

\* The owner's status updates of one incident, two requests at a time.
StatusRaceOps ==
  {Create("SEV2")}
  \cup {Update(1, status, "undefined") :
          status \in {"investigating", "resolved", "closed"}}

NextStatusRace ==
  \E r \in Slots :
    \/ RouteBegin(r, {<<"tA", "u1">>}, StatusRaceOps)
    \/ ConsumeRead(r)
    \/ ConsumeWrite(r)
    \/ ServiceMembership(r)
    \/ ServiceFind(r)
    \/ ServiceApply(r)
    \/ AuditRecord(r)

SpecStatusRace == InitWith({LifecycleLimit}) /\ [][NextStatusRace]_vars

\* Status updates published by the members of tA, the Responder holding
\* any of the incident roles on the incident or none.
Publish(audience, incidentRoles) ==
  [Op("createStatusUpdate", 1, 0, "undefined", "undefined", audience, TRUE)
     EXCEPT !.incidentRoles = incidentRoles]

PublishOps ==
  {Create("SEV2")}
  \cup {Publish(a, {}) : a \in STATUS_UPDATE_AUDIENCES}
  \cup {Publish("external", {role}) : role \in INCIDENT_ROLES}

NextPublish ==
  \E r \in Slots :
    \/ RouteBegin(r, {<<"tA", "u1">>, <<"tA", "u2">>}, PublishOps)
    \/ ConsumeRead(r)
    \/ ConsumeWrite(r)
    \/ ServiceMembership(r)
    \/ ServiceFind(r)
    \/ ServiceApply(r)
    \/ AuditRecord(r)

SpecPublish == InitWith({LifecycleLimit}) /\ [][NextPublish]_vars

\* One request at a time with its audit log, whose writes may be rejected.
NextAudit ==
  \/ /\ Len(auditLogEvents) + consoleErrors < MaxAuditEvents
     /\ RouteBegin(1, InTenant("tA"), ConcurrentOps)
  \/ ConsumeRead(1)
  \/ ConsumeWrite(1)
  \/ ServiceMembership(1)
  \/ ServiceFind(1)
  \/ ServiceApply(1)
  \/ \E fails \in BOOLEAN : AuditRecordSafely(1, fails)

SpecAudit == InitWith({MaxLimit}) /\ [][NextAudit]_vars

(***************************************************************************)
(* The policy engine on its own: authorize applied to every action, every  *)
(* list of org roles up to MaxOrgRoles and every set of incident roles,    *)
(* and applied a second time to the same inputs.                           *)
(***************************************************************************)
programVars == <<memberships, incidentsById, tasks, timeline, statusUpdates,
                 quotasByTenantId, usageEvents, defaultDailyWriteLimit, now,
                 requests>>

OrgRoleLists == UNION {[1..n -> ORG_ROLES] : n \in 0..MaxOrgRoles}

PolicyCalls ==
  {[NoPolicyCall EXCEPT !.action = a, !.orgRoles = o, !.incidentRoles = i] :
     a \in POLICY_ACTIONS, o \in OrgRoleLists, i \in SUBSET INCIDENT_ROLES}

\* AuthorizationDecision.allowed
Decision(call) ==
  IF authorize(call.action, call.orgRoles, call.incidentRoles)
  THEN "allowed" ELSE "denied"

InitPolicy ==
  /\ InitProgram({MaxLimit})
  /\ InitKeys
  /\ policyCall \in PolicyCalls

PolicyAuthorize ==
  /\ policyCall.decision = "none"
  /\ policyCall' = [policyCall EXCEPT !.decision = Decision(policyCall)]
  /\ UNCHANGED <<programVars, apiKeysById, http, backend, rowSecurity, platformVars, repoCall>>

PolicyAuthorizeAgain ==
  /\ policyCall.decision # "none"
  /\ policyCall.repeated = "none"
  /\ policyCall' = [policyCall EXCEPT !.repeated = Decision(policyCall)]
  /\ UNCHANGED <<programVars, apiKeysById, http, backend, rowSecurity, platformVars, repoCall>>

NextPolicy ==
  \/ PolicyAuthorize
  \/ PolicyAuthorizeAgain

SpecPolicy == InitPolicy /\ [][NextPolicy]_vars

(***************************************************************************)
(* The API-key lane: ApiKeyService, InMemoryApiKeyRepository and the       *)
(* middleware chain apiKeyAuthMiddleware, csrfProtection,                  *)
(* requireAuthenticatedUser in front of a tenant-scoped route.             *)
(***************************************************************************)
SAFE_METHODS == {"GET", "HEAD", "OPTIONS"}
Methods == SAFE_METHODS \cup {"POST"}
API_KEY_SCOPES == {"read", "write"}

\* Api key ids are handed out in order.  The secret of key k is the raw key
\* k; the raw key after the last one is well formed and belongs to no key;
\* the raw key -1 does not start with API_KEY_PREFIX.
ApiKeyIds == 1..MaxKeys
RawKeys == {-1} \cup 1..(MaxKeys + 1)

\* sha256 of the raw key: distinct raw keys have distinct hashes.
hashKey(rawKey) == 100 + rawKey

\* null timestamps are -1.
createApiKey(keys, tenantId, ownerUserId, scopes, keyHash) ==
  Append(keys, [tenantId |-> tenantId, ownerUserId |-> ownerUserId,
                scopes |-> scopes, keyHash |-> keyHash,
                lastUsedAt |-> -1, revokedAt |-> -1])

\* InMemoryApiKeyRepository.revokeApiKey: the keys after the call.
revokeApiKey(keys, tenantId, apiKeyId, revokedAt) ==
  IF apiKeyId \notin DOMAIN keys \/ keys[apiKeyId].tenantId # tenantId THEN keys
  ELSE IF keys[apiKeyId].revokedAt = -1
  THEN [keys EXCEPT ![apiKeyId].revokedAt = revokedAt]
  ELSE keys

findActiveApiKeyByHash_revokedToo(keyHash) ==
  IF \E id \in DOMAIN apiKeysById : apiKeysById[id].keyHash = keyHash
  THEN CHOOSE id \in DOMAIN apiKeysById : apiKeysById[id].keyHash = keyHash
  ELSE 0

\* The id of the unrevoked key with the hash, 0 for null.
findActiveApiKeyByHash(keyHash) ==
  IF \E id \in DOMAIN apiKeysById :
       apiKeysById[id].keyHash = keyHash /\ apiKeysById[id].revokedAt = -1
  THEN CHOOSE id \in DOMAIN apiKeysById :
         apiKeysById[id].keyHash = keyHash /\ apiKeysById[id].revokedAt = -1
  ELSE 0

\* InMemoryApiKeyRepository.markApiKeyUsed selects the record by its id.
markApiKeyUsed(keys, tenantId, apiKeyId, usedAt) ==
  IF apiKeyId \notin DOMAIN keys THEN keys
  ELSE [keys EXCEPT ![apiKeyId].lastUsedAt = usedAt]

hasWriteScope_readSuffices(context) ==
  IF context.authType # "api_key" THEN TRUE ELSE "read" \in context.scopes

hasWriteScope(context) ==
  IF context.authType # "api_key" THEN TRUE ELSE "write" \in context.scopes

hasReadScope(context) ==
  IF context.authType # "api_key" THEN TRUE ELSE "read" \in context.scopes

getAuthenticatedUserId(context, sessionUserId) ==
  IF context.userId # "none" THEN context.userId ELSE sessionUserId

getResolvedTenantId_sessionFirst(context, activeTenantId) ==
  IF activeTenantId # "null" THEN activeTenantId ELSE context.tenantId

\* "null" when the route throws TENANT_CONTEXT_REQUIRED.
getResolvedTenantId(context, activeTenantId) ==
  IF context.tenantId # "null" THEN context.tenantId ELSE activeTenantId

\* request.authContext after requireAuthenticatedUser; authType "undefined"
\* when it answers AUTH_REQUIRED.
requireAuthenticatedUser(context, sessionUserId, activeTenantId) ==
  IF context.authType # "undefined" THEN context
  ELSE IF sessionUserId = "none" THEN context
  ELSE [authType |-> "session", userId |-> sessionUserId,
        tenantId |-> activeTenantId, apiKeyId |-> 0, scopes |-> {}]

\* csrfProtection lets the request pass.
csrfProtection(method, csrf) == method \in SAFE_METHODS \/ csrf

HttpEnd(h, status, code) ==
  [h EXCEPT !.pc = "done", !.status = status, !.code = code]

\* The routes of createApiKeyRoutes and the method each is mounted on.
ManagementRoutes ==
  {"listServiceAccounts", "createServiceAccount", "listApiKeys",
   "createApiKey", "revokeApiKey"}

RouteMethod(route) ==
  IF route \in {"listServiceAccounts", "listApiKeys"} THEN "GET" ELSE "POST"

ensureSessionAuth_writeKeysPass(context) ==
  context.authType # "api_key" \/ "write" \in context.scopes

\* ensureSessionAuth does not throw.
ensureSessionAuth(context) == context.authType # "api_key"

\* csrfProtection, the router's requireAuthenticatedUser and the start of a
\* management route up to its first await.
ChainToManagement(h) ==
  LET context == requireAuthenticatedUser(h.authContext, h.sessionUserId,
                                          h.activeTenantId)
  IN IF ~csrfProtection(h.method, h.csrf)
     THEN HttpEnd(h, 403, "CSRF_TOKEN_INVALID")
     ELSE IF context.authType = "undefined"
     THEN HttpEnd(h, 401, "AUTH_REQUIRED")
     ELSE IF ~ensureSessionAuth(context)
     THEN HttpEnd([h EXCEPT !.authContext = context], 403, "PERMISSION_DENIED")
     ELSE [h EXCEPT !.pc = "handler", !.authContext = context,
                    !.userId = getAuthenticatedUserId(context, h.sessionUserId)]

\* The middlewares after apiKeyAuthMiddleware and the entry of the route,
\* which run without an await: the request as it ends or reaches the route.
ChainToRoute(h) ==
  LET context == requireAuthenticatedUser(h.authContext, h.sessionUserId,
                                          h.activeTenantId)
      tenantId == getResolvedTenantId(context, h.activeTenantId)
  IN IF h.route \in ManagementRoutes THEN ChainToManagement(h)
     ELSE IF ~csrfProtection(h.method, h.csrf)
     THEN HttpEnd(h, 403, "CSRF_TOKEN_INVALID")
     ELSE IF context.authType = "undefined"
     THEN HttpEnd(h, 401, "AUTH_REQUIRED")
     ELSE IF tenantId = "null"
     THEN HttpEnd([h EXCEPT !.authContext = context], 400, "TENANT_CONTEXT_REQUIRED")
     ELSE [HttpEnd(h, 200, "ROUTED") EXCEPT
             !.authContext = context,
             !.userId = getAuthenticatedUserId(context, h.sessionUserId),
             !.tenantId = tenantId]

\* The sessions a request can come with: none, a signed-in user without an
\* active tenant, a signed-in user with an active tenant they belong to.
Sessions ==
  {<<"none", "null">>, <<"u1", "null">>, <<"u2", "tB">>}

\* The service accounts keys are created for: (tenant, owner) with the
\* owner a member of the tenant.
ServiceAccounts == {<<"tA", "u1">>, <<"tB", "u2">>}

\* POST /v1/tenants/:tenantId/api-keys by a session principal.
CreateApiKey(userId, account, scopes) ==
  LET tenantId == account[1]
  IN /\ Len(apiKeysById) < MaxKeys
     /\ getMembership(tenantId, userId) # "null"
     /\ assertAuthorized("api_keys.manage", getMembership(tenantId, userId))
     /\ getMembership(tenantId, account[2]) # "null"
     /\ scopes # {}
     /\ apiKeysById' = createApiKey(apiKeysById, tenantId, account[2], scopes,
                                     hashKey(Len(apiKeysById) + 1))
     /\ UNCHANGED <<programVars, policyCall, http, backend, rowSecurity, platformVars, repoCall>>

\* POST /v1/tenants/:tenantId/api-keys/:apiKeyId/revoke by a session
\* principal; a request that ends 403 or 404 changes nothing.
RevokeApiKey(userId, tenantId, apiKeyId) ==
  /\ getMembership(tenantId, userId) # "null"
  /\ assertAuthorized("api_keys.manage", getMembership(tenantId, userId))
  /\ apiKeysById' = revokeApiKey(apiKeysById, tenantId, apiKeyId, now)
  /\ apiKeysById' # apiKeysById
  /\ UNCHANGED <<programVars, policyCall, http, backend, rowSecurity, platformVars, repoCall>>

\* apiKeyAuthMiddleware up to the await of findActiveApiKeyByHash, for a
\* request to the given route.
BeginRequest(route, method, header, session, csrf) ==
  LET h == [IdleHttp EXCEPT !.route = route,
                            !.method = method, !.header = header,
                            !.sessionUserId = session[1],
                            !.activeTenantId = session[2], !.csrf = csrf,
                            !.revoked = /\ header \in DOMAIN apiKeysById
                                        /\ apiKeysById[header].revokedAt # -1]
  IN /\ http.pc \in {"idle", "done"}
     /\ header \in ApiKeyIds => header \in DOMAIN apiKeysById
     /\ http' = IF header = 0 THEN ChainToRoute(h)
                ELSE IF header = -1 THEN HttpEnd(h, 401, "AUTH_INVALID_API_KEY")
                ELSE [h EXCEPT !.pc = "find",
                               !.found = findActiveApiKeyByHash(hashKey(header))]
     /\ UNCHANGED <<programVars, policyCall, apiKeysById, backend, rowSecurity, platformVars,
                    repoCall>>

\* A request to the incident routes.
HttpBegin(method, header, session, csrf) ==
  /\ method \in Methods
  /\ BeginRequest("incidents", method, header, session, csrf)

\* authenticateApiKey from the auth record to the await of getMembership.
HttpOwner ==
  /\ http.pc = "find"
  /\ http' = IF http.found = 0 THEN HttpEnd(http, 401, "AUTH_INVALID_API_KEY")
             ELSE [http EXCEPT
                     !.pc = "owner",
                     !.owner = getMembership(apiKeysById[http.found].tenantId,
                                             apiKeysById[http.found].ownerUserId)]
  /\ UNCHANGED <<programVars, policyCall, apiKeysById, backend, rowSecurity, platformVars,
                 repoCall>>

\* authenticateApiKey from the owner's membership to the await of
\* markApiKeyUsed; the update is applied or, with the database behind the
\* repository, the call can reject.
HttpMarkUsed(fails) ==
  /\ http.pc = "owner"
  /\ fails => backend = "postgres"
  /\ IF http.owner = "null"
     THEN /\ http' = HttpEnd(http, 401, "AUTH_INVALID_API_KEY")
          /\ UNCHANGED apiKeysById
     ELSE IF fails
     THEN /\ http' = [http EXCEPT !.pc = "marked", !.markFailed = TRUE]
          /\ UNCHANGED apiKeysById
     ELSE /\ http' = [http EXCEPT !.pc = "marked"]
          /\ apiKeysById' = markApiKeyUsed(apiKeysById,
                                            apiKeysById[http.found].tenantId,
                                            http.found, now)
  /\ UNCHANGED <<programVars, policyCall, backend, rowSecurity, platformVars, repoCall>>

\* apiKeyAuthMiddleware after authenticateApiKey: the rejection goes to the
\* error handler, otherwise the auth context is set and the scope checked.
HttpScope ==
  LET key == apiKeysById[http.found]
      context == [authType |-> "api_key", userId |-> key.ownerUserId,
                  tenantId |-> key.tenantId, apiKeyId |-> http.found,
                  scopes |-> key.scopes]
      scopeAllowed == IF http.method \in SAFE_METHODS
                      THEN hasReadScope(context) ELSE hasWriteScope(context)
      h == [http EXCEPT !.authContext = context]
  IN /\ http.pc = "marked"
     /\ http' = IF http.markFailed THEN HttpEnd(http, 500, "INTERNAL_ERROR")
                ELSE IF ~scopeAllowed THEN HttpEnd(h, 403, "API_KEY_SCOPE_DENIED")
                ELSE ChainToRoute(h)
     /\ UNCHANGED <<programVars, policyCall, apiKeysById, backend, rowSecurity, platformVars,
                    repoCall>>

NextApiKey ==
  \/ \E u \in Users, a \in ServiceAccounts, s \in SUBSET API_KEY_SCOPES :
       CreateApiKey(u, a, s)
  \/ \E u \in Users, t \in Tenants, k \in ApiKeyIds : RevokeApiKey(u, t, k)
  \/ \E m \in Methods, k \in {0} \cup RawKeys, s \in Sessions, c \in BOOLEAN :
       HttpBegin(m, k, s, c)
  \/ HttpOwner
  \/ \E fails \in BOOLEAN : HttpMarkUsed(fails)
  \/ HttpScope

\* The app on either repository implementation; the migrations enable the
\* row-security policies of the database, under which the statements of
\* PostgresApiKeyRepository select the rows the in-memory repository selects.
InitApiKey ==
  /\ InitProgram({MaxLimit})
  /\ policyCall = NoPolicyCall
  /\ apiKeysById = <<>>
  /\ http = IdleHttp
  /\ InitPlatform
  /\ backend \in {"memory", "postgres"}
  /\ rowSecurity = (backend = "postgres")
  /\ repoCall = NoRepoCall

SpecApiKey == InitApiKey /\ [][NextApiKey]_vars

(***************************************************************************)
(* The API key management routes: src/unnamed/part_016, on ApiKeyService.  *)
(***************************************************************************)
\* A request to one of the management routes.
HttpBeginManagement(route, header, session, csrf) ==
  /\ route \in ManagementRoutes
  /\ BeginRequest(route, RouteMethod(route), header, session, csrf)

createServiceAccount(accounts, tenantId, ownerUserId) ==
  Append(accounts, [tenantId |-> tenantId, ownerUserId |-> ownerUserId])

\* The id of the account, 0 for null.
findServiceAccountById(tenantId, serviceAccountId) ==
  IF /\ serviceAccountId \in DOMAIN serviceAccountsById
     /\ serviceAccountsById[serviceAccountId].tenantId = tenantId
  THEN serviceAccountId ELSE 0

\* What the handler of the route answers and leaves in the repository, from
\* its first await on: [status, code, accounts, keys].
ManagementOutcome(route, userId, tenantId, id, ownerUserId, scopes) ==
  LET membership == getMembership(tenantId, userId)
      ownerId == IF ownerUserId = "undefined" THEN userId ELSE ownerUserId
      revoked == revokeApiKey(apiKeysById, tenantId, id, now)
      Answer(status, code, accounts, keys) ==
        [status |-> status, code |-> code, accounts |-> accounts, keys |-> keys]
      Fail(status, code) == Answer(status, code, serviceAccountsById, apiKeysById)
  IN IF membership = "null" THEN Fail(404, "TENANT_NOT_FOUND")
     ELSE IF ~assertAuthorized("api_keys.manage", membership)
     THEN Fail(403, "PERMISSION_DENIED")
     ELSE IF route \in {"listServiceAccounts", "listApiKeys"}
     THEN Fail(200, "OK")
     ELSE IF route = "createServiceAccount"
     THEN IF getMembership(tenantId, ownerId) = "null"
          THEN Fail(400, "SERVICE_ACCOUNT_OWNER_INVALID")
          ELSE Answer(201, "OK",
                      createServiceAccount(serviceAccountsById, tenantId, ownerId),
                      apiKeysById)
     ELSE IF route = "createApiKey"
     THEN IF findServiceAccountById(tenantId, id) = 0
          THEN Fail(404, "SERVICE_ACCOUNT_NOT_FOUND")
          ELSE Answer(201, "OK", serviceAccountsById,
                      createApiKey(apiKeysById, tenantId,
                                   serviceAccountsById[id].ownerUserId, scopes,
                                   hashKey(Len(apiKeysById) + 1)))
     ELSE IF id \notin DOMAIN apiKeysById \/ apiKeysById[id].tenantId # tenantId
     THEN Fail(404, "API_KEY_NOT_FOUND")
     ELSE Answer(200, "OK", serviceAccountsById, revoked)

\* The handler of a management route from its first await to the response.
HttpManage(tenantId, id, ownerUserId, scopes) ==
  LET outcome == ManagementOutcome(http.route, http.userId, tenantId, id,
                                   ownerUserId, scopes)
  IN /\ http.pc = "handler"
     /\ scopes # {}
     /\ Len(outcome.accounts) <= MaxAccounts
     /\ Len(outcome.keys) <= MaxKeys
     /\ http' = [HttpEnd(http, outcome.status, outcome.code) EXCEPT
                   !.tenantId = tenantId]
     /\ serviceAccountsById' = outcome.accounts
     /\ apiKeysById' = outcome.keys
     /\ UNCHANGED <<programVars, policyCall, backend, rowSecurity, repoCall,
                    tenancyVars, sinkVars, authVars>>

\* The signed-in users that send management requests: the owner of tA, the
\* admin of tB, and nobody.
ManagementSessions == {<<"none", "null">>, <<"u1", "tA">>, <<"u2", "tB">>}

\* The app on the in-memory repositories with no service account yet.
InitManagement ==
  /\ InitProgram({MaxLimit})
  /\ policyCall = NoPolicyCall
  /\ apiKeysById = <<>>
  /\ http = IdleHttp
  /\ serviceAccountsById = <<>>
  /\ InitTenancy
  /\ InitSinks
  /\ InitAuth
  /\ backend = "memory"
  /\ rowSecurity = FALSE
  /\ repoCall = NoRepoCall

NextManagement ==
  \/ \E r \in ManagementRoutes, k \in {0} \cup ApiKeyIds,
        s \in ManagementSessions, c \in BOOLEAN :
       HttpBeginManagement(r, k, s, c)
  \/ HttpOwner
  \/ HttpMarkUsed(FALSE)
  \/ HttpScope
  \/ \E t \in Tenants, id \in 1..Max(MaxKeys, MaxAccounts),
        o \in {"undefined", "u2"},
        s \in {{"read"}, {"write"}, {"read", "write"}} :
       HttpManage(t, id, o, s)

SpecManagement == InitManagement /\ [][NextManagement]_vars

(***************************************************************************)
(* Tenancy: src/src/services/tenant-service.ts and the routes of           *)
(* src/unnamed/part_012, on src/src/repositories/in-memory-tenant-         *)
(* repository.ts and src/src/repositories/postgres-tenant-repository.ts.   *)
(***************************************************************************)
\* TenantServiceConfig.inviteTokenTtlHours, set to one step of the clock.
inviteTokenTtlHours == QUOTA_WINDOW_HOURS

\* The ids createTenantWithOwner hands out, in order.
NewTenantIds == <<"tC", "tD", "tE">>
AllTenants == Tenants \cup {NewTenantIds[i] : i \in DOMAIN NewTenantIds}

\* Users sign up with a lower-case email; "Ann@x" is the one string of the
\* model with an upper-case letter.
UserEmail(userId) ==
  CASE userId = "u1" -> "ann@x" [] userId = "u2" -> "bob@x" [] OTHER -> "cy@x"

toLowerCase(text) == IF text = "Ann@x" THEN "ann@x" ELSE text

\* sha256 of the invite token: the token of invite i is i.
hashToken(token) == 200 + token

\* Map.set on membershipsByKey.
setMembership(map, tenantId, userId, role) ==
  [k \in DOMAIN map \cup {<<tenantId, userId>>} |->
     IF k = <<tenantId, userId>> THEN role ELSE map[k]]

MembershipRow(tenantId, userId, role) ==
  [tenantId |-> tenantId, userId |-> userId, role |-> role]

RowsOf(rows, tenantId, userId) ==
  {row \in rows : row.tenantId = tenantId /\ row.userId = userId}

PostgresUpsertMembership_insertOnly(rows, tenantId, userId, role) ==
  rows \cup {MembershipRow(tenantId, userId, role)}

\* INSERT INTO memberships ... ON CONFLICT (tenant_id, user_id) DO UPDATE
\* SET role = EXCLUDED.role
PostgresUpsertMembership(rows, tenantId, userId, role) ==
  (rows \ RowsOf(rows, tenantId, userId))
    \cup {MembershipRow(tenantId, userId, role)}

\* SELECT * FROM memberships WHERE tenant_id = $1 AND user_id = $2 LIMIT 1
PostgresGetMembership(tenantId, userId) ==
  IF RowsOf(membershipRows, tenantId, userId) = {} THEN "null"
  ELSE (CHOOSE row \in RowsOf(membershipRows, tenantId, userId) : TRUE).role

TenantMembership_anyTenant(tenantId, userId) ==
  IF \E t \in AllTenants : getMembership(t, userId) # "null"
  THEN "Viewer" ELSE "null"

\* getMembership of the repository the app was built with.
TenantMembership(tenantId, userId) ==
  IF backend = "postgres" THEN PostgresGetMembership(tenantId, userId)
  ELSE getMembership(tenantId, userId)

createInvite(invites, tenantId, email, role, invitedByUserId, expiresAt) ==
  Append(invites, [tenantId |-> tenantId, email |-> toLowerCase(email),
                   role |-> role, invitedByUserId |-> invitedByUserId,
                   tokenHash |-> hashToken(Len(invites) + 1),
                   expiresAt |-> expiresAt, acceptedAt |-> -1,
                   acceptedByUserId |-> "null"])

\* The id of the invite with the token hash, 0 for none.
findInviteByTokenHash(tokenHash) ==
  IF \E i \in DOMAIN invitesById : invitesById[i].tokenHash = tokenHash
  THEN CHOOSE i \in DOMAIN invitesById : invitesById[i].tokenHash = tokenHash
  ELSE 0

inviteAcceptable_neverExpires(invite, userEmail, at) ==
  /\ invite.acceptedAt = -1
  /\ toLowerCase(invite.email) = toLowerCase(userEmail)
  /\ invite.tenantId \in tenantsById

\* The checks of acceptInvite before it writes: the invite is not accepted,
\* expiresAt is not before now, the emails are equal in lower case, and the
\* tenant exists.
inviteAcceptable(invite, userEmail, at) ==
  /\ invite.acceptedAt = -1
  /\ ~(invite.expiresAt < at)
  /\ toLowerCase(invite.email) = toLowerCase(userEmail)
  /\ invite.tenantId \in tenantsById

markAccepted(invites, inviteId, at, userId) ==
  [invites EXCEPT ![inviteId].acceptedAt = at,
                  ![inviteId].acceptedByUserId = userId]

withTransaction_keepsWrites(committed, written) == written

\* ROLLBACK of withTransaction: what the statements of the transaction
\* wrote is discarded.
withTransaction(committed, written) == committed

\* What the statements of the acceptance in slot r have written so far.
WrittenRows(r) ==
  IF accepts[r].pc \in {"update", "commit"}
  THEN PostgresUpsertMembership(membershipRows,
                                invitesById[accepts[r].inviteId].tenantId,
                                accepts[r].userId,
                                invitesById[accepts[r].inviteId].role)
  ELSE membershipRows

WrittenInvites(r) ==
  IF accepts[r].pc = "commit"
  THEN markAccepted(invitesById, accepts[r].inviteId, accepts[r].at,
                    accepts[r].userId)
  ELSE invitesById

\* Another transaction holds the lock of the membership row (tenant, user)
\* of the acceptance in slot r, or of its invite row, until it ends.
MembershipRowLocked(r) ==
  \E o \in AcceptSlots \ {r} :
    /\ accepts[o].pc \in {"update", "commit"}
    /\ accepts[o].userId = accepts[r].userId
    /\ invitesById[accepts[o].inviteId].tenantId
         = invitesById[accepts[r].inviteId].tenantId

InviteRowLocked(r) ==
  \E o \in AcceptSlots \ {r} :
    accepts[o].pc = "commit" /\ accepts[o].inviteId = accepts[r].inviteId

\* The acceptance has answered.
AcceptEnd(a, status, code) ==
  [a EXCEPT !.pc = "done", !.status = status, !.code = code]

TenantAnswer(op, userId, tenantId, status, code) ==
  [op |-> op, userId |-> userId, tenantId |-> tenantId, status |-> status,
   code |-> code]

tenancyFrame == <<incidentsById, tasks, timeline, statusUpdates,
                  quotasByTenantId, usageEvents, defaultDailyWriteLimit,
                  requests, policyCall, apiKeysById, http, backend,
                  rowSecurity, repoCall, serviceAccountsById, sinkVars,
                  authVars>>

\* POST /v1/tenants
TenantCreate(userId) ==
  LET created == Cardinality(tenantsById) - Cardinality(Tenants)
      tenantId == NewTenantIds[created + 1]
  IN /\ created < MaxTenants
     /\ tenantsById' = tenantsById \cup {tenantId}
     /\ IF backend = "postgres"
        THEN /\ membershipRows' =
                  membershipRows \cup {MembershipRow(tenantId, userId, "Owner")}
             /\ UNCHANGED memberships
        ELSE /\ memberships' = setMembership(memberships, tenantId, userId, "Owner")
             /\ UNCHANGED membershipRows
     /\ activeTenantByUser' = [activeTenantByUser EXCEPT ![userId] = tenantId]
     /\ tenantCall' = NoTenantCall
     /\ UNCHANGED <<tenancyFrame, now, invitesById, accepts>>

\* POST /v1/tenants/:tenantId/switch
TenantSwitch(userId, tenantId) ==
  LET membership == TenantMembership(tenantId, userId)
      status == IF membership = "null" THEN 404
                ELSE IF ~assertAuthorized("tenant.read", membership) THEN 403
                ELSE 200
      code == IF status = 404 THEN "TENANT_NOT_FOUND"
              ELSE IF status = 403 THEN "PERMISSION_DENIED" ELSE "OK"
  IN /\ activeTenantByUser' =
          IF status = 200
          THEN [activeTenantByUser EXCEPT ![userId] = tenantId]
          ELSE activeTenantByUser
     /\ tenantCall' = TenantAnswer("switch", userId, tenantId, status, code)
     /\ UNCHANGED <<tenancyFrame, now, memberships, tenantsById, invitesById,
                    membershipRows, accepts>>

\* POST /v1/tenants/:tenantId/invites by a member allowed to invite; a
\* request that ends 403 or 404 changes nothing.
InviteCreate(userId, tenantId, email, role) ==
  /\ Len(invitesById) < MaxInvites
  /\ TenantMembership(tenantId, userId) # "null"
  /\ assertAuthorized("members.invite", TenantMembership(tenantId, userId))
  /\ invitesById' = createInvite(invitesById, tenantId, email, role, userId,
                                 now + inviteTokenTtlHours)
  /\ tenantCall' = NoTenantCall
  /\ UNCHANGED <<tenancyFrame, now, memberships, tenantsById, membershipRows,
                 activeTenantByUser, accepts>>

\* POST /v1/tenants/invites/accept up to the await of findUserById.
AcceptBegin(r, userId, token) ==
  /\ accepts[r].pc \in {"idle", "done"}
  /\ accepts' = [accepts EXCEPT ![r] =
                   [IdleAccept EXCEPT !.pc = "call", !.userId = userId,
                                      !.token = token]]
  /\ tenantCall' = NoTenantCall
  /\ UNCHANGED <<tenancyFrame, now, memberships, tenantsById, invitesById,
                 membershipRows, activeTenantByUser>>

\* TenantService.acceptInvite from the user record on.  In memory the
\* repository call is one synchronous section and the route ends; on the
\* database it runs the SELECT of the invite.
AcceptCall(r) ==
  LET a == accepts[r]
      inviteId == findInviteByTokenHash(hashToken(a.token))
      acceptable == /\ inviteId # 0
                    /\ inviteAcceptable(invitesById[inviteId],
                                        UserEmail(a.userId), now)
      tenantId == IF inviteId = 0 THEN "null" ELSE invitesById[inviteId].tenantId
      here == [a EXCEPT !.at = now, !.inviteId = inviteId]
  IN /\ a.pc = "call"
     /\ IF ~acceptable
        THEN /\ accepts' = [accepts EXCEPT ![r] = AcceptEnd(here, 400, "INVITE_INVALID")]
             /\ tenantCall' = NoTenantCall
             /\ UNCHANGED <<memberships, invitesById, activeTenantByUser>>
        ELSE IF backend = "postgres"
        THEN /\ accepts' = [accepts EXCEPT ![r] = [here EXCEPT !.pc = "insert"]]
             /\ tenantCall' = NoTenantCall
             /\ UNCHANGED <<memberships, invitesById, activeTenantByUser>>
        ELSE /\ accepts' = [accepts EXCEPT ![r] = AcceptEnd(here, 200, "OK")]
             /\ invitesById' = markAccepted(invitesById, inviteId, now, a.userId)
             /\ memberships' = setMembership(memberships, tenantId, a.userId,
                                             invitesById[inviteId].role)
             /\ activeTenantByUser' =
                  [activeTenantByUser EXCEPT ![a.userId] = tenantId]
             /\ tenantCall' = NoTenantCall
     /\ UNCHANGED <<tenancyFrame, now, tenantsById, membershipRows>>

\* A statement of the transaction is rejected, or its COMMIT is:
\* withTransaction rolls back and the error reaches the error handler.
AcceptFail(r) ==
  LET a == accepts[r]
  IN /\ a.pc \in {"insert", "update", "commit"}
     /\ membershipRows' = withTransaction(membershipRows, WrittenRows(r))
     /\ invitesById' = withTransaction(invitesById, WrittenInvites(r))
     /\ accepts' = [accepts EXCEPT ![r] = AcceptEnd(a, 500, "INTERNAL_ERROR")]
     /\ tenantCall' = NoTenantCall
     /\ UNCHANGED <<tenancyFrame, now, memberships, tenantsById,
                    activeTenantByUser>>

\* The INSERT ... ON CONFLICT of the membership, which waits for the lock.
AcceptInsert(r) ==
  /\ accepts[r].pc = "insert"
  /\ ~MembershipRowLocked(r)
  /\ accepts' = [accepts EXCEPT ![r].pc = "update"]
  /\ tenantCall' = NoTenantCall
  /\ UNCHANGED <<tenancyFrame, now, memberships, tenantsById, invitesById,
                 membershipRows, activeTenantByUser>>

\* The UPDATE of the invite, which waits for the lock.
AcceptUpdate(r) ==
  /\ accepts[r].pc = "update"
  /\ ~InviteRowLocked(r)
  /\ accepts' = [accepts EXCEPT ![r].pc = "commit"]
  /\ tenantCall' = NoTenantCall
  /\ UNCHANGED <<tenancyFrame, now, memberships, tenantsById, invitesById,
                 membershipRows, activeTenantByUser>>

\* COMMIT, and the route after the service call returned.
AcceptCommit(r) ==
  LET a == accepts[r]
      tenantId == invitesById[a.inviteId].tenantId
  IN /\ a.pc = "commit"
     /\ membershipRows' = WrittenRows(r)
     /\ invitesById' = WrittenInvites(r)
     /\ activeTenantByUser' = [activeTenantByUser EXCEPT ![a.userId] = tenantId]
     /\ accepts' = [accepts EXCEPT ![r] = AcceptEnd(a, 200, "OK")]
     /\ tenantCall' = NoTenantCall
     /\ UNCHANGED <<tenancyFrame, now, memberships, tenantsById>>

\* Time passes between the steps of the tenant routes.
TenantTick ==
  /\ now + QUOTA_WINDOW_HOURS \in Times
  /\ now' = now + QUOTA_WINDOW_HOURS
  /\ tenantCall' = NoTenantCall
  /\ UNCHANGED <<tenancyFrame, memberships, tenantsById, invitesById,
                 membershipRows, activeTenantByUser, accepts>>

\* The emails and roles invites are sent to.
InviteEmails == {"Ann@x", "cy@x"}
InviteRoles == {"Admin", "Viewer"}

\* The tenants invites are sent for: the seeded one in which one invited
\* user is a member and the other is not, and the created ones.
InviteTenants == AllTenants \ {"tA"}

InitTenants ==
  /\ InitProgram({MaxLimit})
  /\ policyCall = NoPolicyCall
  /\ apiKeysById = <<>>
  /\ http = IdleHttp
  /\ InitPlatform
  /\ backend \in {"memory", "postgres"}
  /\ rowSecurity = (backend = "postgres")
  /\ repoCall = NoRepoCall

\* The tenants a switch names: the seeded ones, the created ones and one
\* that never exists.
SwitchTargets == Tenants \cup {NewTenantIds[i] : i \in 1..(MaxTenants + 1)}

\* Creating tenants and switching between them.
NextTenants ==
  \/ \E u \in Users : TenantCreate(u)
  \/ \E u \in Users, t \in SwitchTargets : TenantSwitch(u, t)

SpecTenants == InitTenants /\ [][NextTenants]_vars

\* The user who creates tenants while invites are sent: the one who is not
\* a member of every seeded tenant.
Founders == {"u3"}

\* Tenants, invites and one acceptance at a time, while the clock advances.
NextInvites ==
  \/ \E u \in Founders : TenantCreate(u)
  \/ \E u \in Users, t \in InviteTenants, e \in InviteEmails, role \in InviteRoles :
       InviteCreate(u, t, e, role)
  \/ \E u \in Users, k \in 1..(MaxInvites + 1) : AcceptBegin(1, u, k)
  \/ AcceptCall(1)
  \/ AcceptFail(1)
  \/ AcceptInsert(1)
  \/ AcceptUpdate(1)
  \/ AcceptCommit(1)
  \/ TenantTick

SpecInvites == InitTenants /\ [][NextInvites]_vars

\* Invites and their acceptances, interleaved.
NextAccepts ==
  \/ \E u \in Users, t \in InviteTenants, e \in InviteEmails, role \in InviteRoles :
       InviteCreate(u, t, e, role)
  \/ \E r \in AcceptSlots, u \in Users, k \in 1..(MaxInvites + 1) :
       AcceptBegin(r, u, k)
  \/ \E r \in AcceptSlots : AcceptCall(r)
  \/ \E r \in AcceptSlots : AcceptFail(r)
  \/ \E r \in AcceptSlots : AcceptInsert(r)
  \/ \E r \in AcceptSlots : AcceptUpdate(r)
  \/ \E r \in AcceptSlots : AcceptCommit(r)

SpecAccepts == InitTenants /\ [][NextAccepts]_vars

\* Invites to every tenant for the highest and the lowest role, sent by
\* whoever is allowed to invite, and their acceptances.
GrantedRoles == {"Owner", "Viewer"}

NextPrivilege ==
  \/ \E u \in Founders : TenantCreate(u)
  \/ \E u \in Users, t \in AllTenants, e \in InviteEmails, role \in GrantedRoles :
       InviteCreate(u, t, e, role)
  \/ \E u \in Users, k \in 1..(MaxInvites + 1) : AcceptBegin(1, u, k)
  \/ AcceptCall(1)
  \/ AcceptFail(1)
  \/ AcceptInsert(1)
  \/ AcceptUpdate(1)
  \/ AcceptCommit(1)

SpecPrivilege == InitTenants /\ [][NextPrivilege]_vars

(***************************************************************************)
(* Incident requests authenticated by an api key while the role of the     *)
(* key's owner changes.                                                    *)
(***************************************************************************)
\* The incident route a request reaches after the middleware chain let it
\* through with the principal of an api key: getAuthenticatedUserId and
\* getResolvedTenantId read request.authContext.
KeyRouteBegin(r, ops) ==
  /\ http.pc = "done"
  /\ http.code = "ROUTED"
  /\ http.authContext.authType = "api_key"
  /\ requests[r].pc \in {"idle", "done"}
  /\ \E op \in ops :
       /\ (op.kind \in MutatingKinds) = (http.method \notin SAFE_METHODS)
       /\ op.kind = "createIncident" => Len(incidentsById) < MaxIncidents
       /\ requests' = [requests EXCEPT ![r] =
            [IdleRequest EXCEPT
               !.pc = routeFirstStep(op.kind),
               !.tenantId = getResolvedTenantId(http.authContext, http.activeTenantId),
               !.userId = getAuthenticatedUserId(http.authContext, http.sessionUserId),
               !.op = op,
               !.trace = <<"principal">>]]
  /\ http' = [http EXCEPT !.pc = "idle"]
  /\ UNCHANGED <<memberships, incidentsById, tasks, timeline, statusUpdates,
                 quotasByTenantId, usageEvents, defaultDailyWriteLimit, now,
                 policyCall, apiKeysById, backend, rowSecurity, repoCall,
                 platformVars>>

\* The accounts the key is created for: u1 is Owner of tA and Viewer of tB.
KeyAccounts == {<<"tA", "u1">>, <<"tB", "u1">>}

KeyOps ==
  {Create("SEV2"), Update(1, "investigating", "undefined"),
   OnIncident("getIncident", 1)}

\* One key is created for u1, the managers of the tenants invite the email
\* of u1 with another role, u1 accepts, and requests come with the key.
NextKeyRole ==
  \/ \E u \in {"u1", "u2"}, a \in KeyAccounts :
       /\ apiKeysById = <<>>
       /\ CreateApiKey(u, a, API_KEY_SCOPES)
  \/ \E u \in {"u1", "u2"}, t \in Tenants, role \in {"Admin", "Viewer"} :
       InviteCreate(u, t, "Ann@x", role)
  \/ \E k \in 1..MaxInvites : AcceptBegin(1, "u1", k)
  \/ AcceptCall(1)
  \/ \E m \in {"GET", "POST"} :
       HttpBegin(m, 1, <<"none", "null">>, TRUE)
  \/ HttpOwner
  \/ HttpMarkUsed(FALSE)
  \/ HttpScope
  \/ KeyRouteBegin(1, KeyOps)
  \/ ConsumeRead(1)
  \/ ConsumeWrite(1)
  \/ ServiceMembership(1)
  \/ ServiceFind(1)
  \/ ServiceApply(1)
  \/ AuditRecord(1)

InitKeyRole ==
  /\ InitProgram({MaxLimit})
  /\ policyCall = NoPolicyCall
  /\ InitKeys

SpecKeyRole == InitKeyRole /\ [][NextKeyRole]_vars

(***************************************************************************)
(* The list endpoints: a client asks for the first page and follows        *)
(* nextCursor over rows that do not change.  Instants are counted in ticks *)
(* of the database clock; a JavaScript Date holds whole milliseconds.      *)
(***************************************************************************)
\* IncidentServiceConfig.listMaxLimit, and the limits a client asks for.
listMaxLimit == 2
RequestedLimits == 1..(listMaxLimit + 1)

\* The database keeps microseconds, here two ticks in a millisecond; the
\* rows are created within two milliseconds.
TicksPerMs == 2
ListedMs == 2
DateInstants == {ms * TicksPerMs : ms \in 0..(ListedMs - 1)}
DatabaseInstants == 0..(ListedMs * TicksPerMs - 1)

ListKinds == {"incidents", "audit"}

\* created_at as the store got it: a new Date() of the process, except for
\* the audit events of the database, which are stamped by NOW().
CreatedAtValues(kind, store) ==
  IF kind = "audit" /\ store = "postgres" THEN DatabaseInstants ELSE DateInstants

\* The driver's reading of a timestamptz into a Date drops what is finer
\* than a millisecond.
toDate(instant) == instant - (instant % TicksPerMs)

\* Date.toISOString and new Date(string): the text carries milliseconds.
toISOString(date) == date \div TicksPerMs
parseDate(text) == text * TicksPerMs

encodeCursor(createdAt, id) == [createdAt |-> toISOString(createdAt), id |-> id]
parseCursor(cursor) ==
  IF cursor = NoCursor THEN NoCursor
  ELSE [createdAt |-> parseDate(cursor.createdAt), id |-> cursor.id]

normalizeLimit(limit) == IF limit < listMaxLimit THEN limit ELSE listMaxLimit

\* left sorts before right: createdAt descending, then id descending.
compareDescending(left, right) ==
  \/ left.createdAt > right.createdAt
  \/ left.createdAt = right.createdAt /\ left.id > right.id

isAfterCursor(row, cursor) ==
  \/ row.createdAt < cursor.createdAt
  \/ row.createdAt = cursor.createdAt /\ row.id < cursor.id

\* Array.sort with compareDescending, and ORDER BY created_at DESC, id DESC:
\* the row at place i is the one that i - 1 rows sort before.
sortDescending(rows) ==
  [i \in 1..Cardinality(rows) |->
     CHOOSE row \in rows :
       Cardinality({other \in rows : compareDescending(other, row)}) = i - 1]

slice(list, count) == SubSeq(list, 1, IF Len(list) < count THEN Len(list) ELSE count)

\* The row as the repository returns it: createdAt is a Date.
mapRow(row) == [row EXCEPT !.createdAt = toDate(row.createdAt)]

\* InMemoryIncidentRepository.listIncidents and
\* InMemoryAuditLogRepository.listEventsForTenant
listInMemory(rows, tenantId, limit, after) ==
  LET ofTenant == {row \in rows : row.tenantId = tenantId}
      kept == {row \in ofTenant : after = NoCursor \/ isAfterCursor(row, after)}
  IN slice(sortDescending(kept), limit)

\* SELECT ... WHERE tenant_id = $2 AND (created_at, id) < ($3, $4)
\* ORDER BY created_at DESC, id DESC LIMIT $1, with $1 = limit + 1, then
\* rows.slice(0, limit).map(...)
PostgresList(rows, tenantId, limit, after) ==
  LET selected == {row \in rows :
                     /\ row.tenantId = tenantId
                     /\ after = NoCursor \/ isAfterCursor(row, after)}
      fetched == slice(sortDescending(selected), limit + 1)
      returned == slice(fetched, limit)
  IN [i \in DOMAIN returned |-> mapRow(returned[i])]

nextCursor_always(page, limit) ==
  IF page = <<>> THEN NoCursor
  ELSE encodeCursor(page[Len(page)].createdAt, page[Len(page)].id)

\* nextCursor of the page: null for a page shorter than the limit.
nextCursor(page, limit) ==
  IF Len(page) < limit \/ page = <<>> THEN NoCursor
  ELSE encodeCursor(page[Len(page)].createdAt, page[Len(page)].id)

\* IncidentService.listIncidents and AuditLogQueryService.listEvents for a
\* member allowed to read.
listPage(rows, tenantId, limit, cursor) ==
  LET normalizedLimit == normalizeLimit(limit)
      parsedCursor == parseCursor(cursor)
      page == IF backend = "postgres"
              THEN PostgresList(rows, tenantId, normalizedLimit, parsedCursor)
              ELSE listInMemory(rows, tenantId, normalizedLimit, parsedCursor)
  IN [page |-> page, nextCursor |-> nextCursor(page, normalizedLimit)]

Ids(page) == [i \in DOMAIN page |-> page[i].id]

listingFrame == <<programVars, policyCall, apiKeysById, http, backend,
                  rowSecurity, repoCall, serviceAccountsById, tenancyVars,
                  auditLogEvents, consoleErrors, authVars>>

\* createIncident or createEvent adds a row before the client starts: its
\* id is a fresh random UUID, its createdAt an instant its store can hold.
ListCreate(id, tenantId, createdAt) ==
  /\ walk.pc = "ready"
  /\ \A row \in walk.rows : row.id # id
  /\ createdAt \in CreatedAtValues(walk.kind, backend)
  /\ walk' = [walk EXCEPT !.rows = @ \cup {[id |-> id, tenantId |-> tenantId,
                                            createdAt |-> createdAt]}]
  /\ UNCHANGED listingFrame

\* GET of the list without a cursor.
ListFirst(limit) ==
  /\ walk.pc = "ready"
  /\ \E out \in {listPage(walk.rows, "tA", limit, NoCursor)} :
       walk' = [walk EXCEPT !.pc = "paging", !.limit = limit,
                            !.page = Ids(out.page), !.seen = Ids(out.page),
                            !.nextCursor = out.nextCursor]
  /\ UNCHANGED listingFrame

\* GET of the list with the cursor of the page before.
ListNext ==
  /\ walk.pc = "paging"
  /\ walk.nextCursor # NoCursor
  /\ \E out \in {listPage(walk.rows, "tA", walk.limit, walk.nextCursor)} :
       walk' = [walk EXCEPT !.cursor = walk.nextCursor, !.page = Ids(out.page),
                            !.seen = @ \o Ids(out.page),
                            !.nextCursor = out.nextCursor]
  /\ UNCHANGED listingFrame

\* Either list endpoint on either repository, with no row yet.
InitListing ==
  /\ InitProgram({MaxLimit})
  /\ policyCall = NoPolicyCall
  /\ apiKeysById = <<>>
  /\ http = IdleHttp
  /\ serviceAccountsById = SeedServiceAccounts
  /\ InitTenancy
  /\ InitAuth
  /\ auditLogEvents = <<>>
  /\ consoleErrors = 0
  /\ backend \in {"memory", "postgres"}
  /\ rowSecurity = (backend = "postgres")
  /\ repoCall = NoRepoCall
  /\ \E kind \in ListKinds :
       walk = [IdleWalk EXCEPT !.pc = "ready", !.kind = kind]

NextListing ==
  \/ \E id \in 1..MaxRows, t \in Tenants, createdAt \in DatabaseInstants :
       ListCreate(id, t, createdAt)
  \/ \E limit \in RequestedLimits : ListFirst(limit)
  \/ ListNext

SpecListing == InitListing /\ [][NextListing]_vars

\* The client goes on asking.
FairListing ==
  /\ SpecListing
  /\ WF_vars(\E limit \in RequestedLimits : ListFirst(limit))
  /\ WF_vars(ListNext)

(***************************************************************************)
(* The auth routes: src/unnamed/part_014 (login, password/forgot,          *)
(* password/reset), AuthService in src/unnamed/part_009 and the auth       *)
(* repositories (in memory: src/src/repositories/postgres-tenant-          *)
(* repository.ts 388-517; durable: postgres-auth-repository.ts).  The      *)
(* clock counts the steps of authNow: a lockout lasts lockoutSeconds of    *)
(* them, a reset token resetTokenTtlMinutes.                               *)
(***************************************************************************)
\* AuthServiceConfig, scaled to the clock of the model.
lockoutAttempts == 2
lockoutSeconds == 1
resetTokenTtlMinutes == 1

AuthTimes == 0..MaxAuthTicks

\* What the callers send: the email of the account in two spellings and an
\* email nobody signed up with; passwords long enough for the schemas of
\* the routes; the reset tokens handed out and one that never was.
LoginEmails == {"Ann@x", "ann@x", "nobody@x"}
Passwords == {"p1", "p2"}
ResetTokens == 1..(MaxResetTokens + 1)

\* argon2.hash and argon2.verify.
argon2hash(password) == IF password = "p1" THEN "argon2:p1" ELSE "argon2:p2"
argon2verify(passwordHash, password) == passwordHash = argon2hash(password)

\* sha256 of the reset token: the n-th token handed out is n.
hashResetToken(token) == 300 + token

\* AuthRepository.findUserByEmail: the id of the user, or "null".
findUserByEmail(email) ==
  IF \E u \in AuthUsers : UserEmail(u) = toLowerCase(email)
  THEN CHOOSE u \in AuthUsers : UserEmail(u) = toLowerCase(email)
  ELSE "null"

\* AuthService.login, the check before the password is looked at.
isLockedOut(user, at) == user.lockoutUntil # NoDate /\ user.lockoutUntil > at

\* AuthService.login on a wrong password: the attempts to store and the
\* lockout that goes with them.
failedLogin_countsFromZero(user, at) ==
  [failedLoginAttempts |-> user.failedLoginAttempts + 1,
   lockoutUntil |-> IF user.failedLoginAttempts >= lockoutAttempts
                    THEN at + lockoutSeconds ELSE NoDate]

failedLogin(user, at) ==
  [failedLoginAttempts |-> user.failedLoginAttempts + 1,
   lockoutUntil |-> IF user.failedLoginAttempts + 1 >= lockoutAttempts
                    THEN at + lockoutSeconds ELSE NoDate]

recordFailedLogin(users, userId, failedLoginAttempts, lockoutUntil) ==
  [users EXCEPT ![userId].failedLoginAttempts = failedLoginAttempts,
                ![userId].lockoutUntil = lockoutUntil]

clearFailedLoginState(users, userId) ==
  [users EXCEPT ![userId].failedLoginAttempts = 0,
                ![userId].lockoutUntil = NoDate]

updateUserPassword(users, userId, passwordHash, passwordUpdatedAt) ==
  [users EXCEPT ![userId].passwordHash = passwordHash,
                ![userId].passwordUpdatedAt = passwordUpdatedAt,
                ![userId].failedLoginAttempts = 0,
                ![userId].lockoutUntil = NoDate]

createPasswordResetToken(tokens, userId, tokenHash, expiresAt) ==
  [h \in DOMAIN tokens \cup {tokenHash} |->
     IF h = tokenHash
     THEN [userId |-> userId, expiresAt |-> expiresAt, usedAt |-> NoDate]
     ELSE tokens[h]]

purgeExpiredPasswordResetTokens(tokens, at) ==
  [h \in {k \in DOMAIN tokens : ~(tokens[k].expiresAt < at)} |-> tokens[h]]

resetTokenUsable_reusable(tokens, tokenHash, at) ==
  /\ tokenHash \in DOMAIN tokens
  /\ ~(tokens[tokenHash].expiresAt < at)

resetTokenUsable(tokens, tokenHash, at) ==
  /\ tokenHash \in DOMAIN tokens
  /\ tokens[tokenHash].usedAt = NoDate
  /\ ~(tokens[tokenHash].expiresAt < at)

\* AuthRepository.consumePasswordResetToken: the user of the token, or
\* "null", and the tokens with the token marked used.
consumePasswordResetToken(tokens, tokenHash, at) ==
  IF resetTokenUsable(tokens, tokenHash, at)
  THEN [userId |-> tokens[tokenHash].userId,
        tokens |-> [tokens EXCEPT ![tokenHash].usedAt = at]]
  ELSE [userId |-> "null", tokens |-> tokens]

\* What AuthService.resetPassword returns to the route: it is declared
\* Promise<void> and has no return statement.
resetPasswordResult(userId) == "undefined"

\* The event an auth route hands to the audit service.
AuthAuditEvent(action, actorUserId, targetId) ==
  [action |-> action, actorUserId |-> actorUserId, tenantId |-> "null",
   targetId |-> targetId]

AuthEnd(c, status, code) ==
  [c EXCEPT !.pc = "done", !.status = status, !.code = code]

authFrame == <<programVars, policyCall, apiKeysById, http, backend,
               rowSecurity, repoCall, serviceAccountsById, tenancyVars>>

\* A route starts while the audit log of the model has room.
AuthRoom(r) ==
  /\ authCalls[r].pc \in {"idle", "done"}
  /\ Len(auditLogEvents) + consoleErrors < MaxAuthEvents

\* POST /v1/auth/login up to the check of the lockout: findUserByEmail and
\* the comparison of lockoutUntil with the now of the route.
LoginFind(r, email, password) ==
  LET userId == findUserByEmail(email)
      c == [IdleAuthCall EXCEPT !.op = "login", !.email = email,
                                !.password = password, !.at = authNow,
                                !.userId = userId]
  IN /\ AuthRoom(r)
     /\ authCalls' =
          [authCalls EXCEPT ![r] =
             IF userId = "null"
             THEN AuthEnd(c, 401, "AUTH_INVALID_CREDENTIALS")
             ELSE IF isLockedOut(usersById[userId], authNow)
             THEN AuthEnd([c EXCEPT !.user = usersById[userId]],
                          423, "AUTH_ACCOUNT_LOCKED")
             ELSE [c EXCEPT !.pc = "verify", !.user = usersById[userId]]]
     /\ UNCHANGED <<authFrame, sinkVars, usersById, passwordResetTokensByHash,
                    authNow, authTrail>>

\* The rest of the login: argon2.verify on the row that was read, then
\* recordFailedLogin and the error, or clearFailedLoginState, the session,
\* the audit event and the answer.
LoginVerify(r, fails) ==
  LET c == authCalls[r]
      failed == failedLogin(c.user, c.at)
      audited == recordSafely(auditLogEvents, consoleErrors,
                              AuthAuditEvent("auth.login", c.userId, c.userId),
                              fails)
  IN /\ c.pc = "verify"
     /\ IF argon2verify(c.user.passwordHash, c.password)
        THEN /\ usersById' = clearFailedLoginState(usersById, c.userId)
             /\ auditLogEvents' = audited.events
             /\ consoleErrors' = audited.errors
             /\ authTrail' = [authTrail EXCEPT !.wrong[c.userId] = 0]
             /\ authCalls' = [authCalls EXCEPT ![r] =
                                AuthEnd([c EXCEPT !.returned = c.userId], 200, "OK")]
        ELSE /\ usersById' = recordFailedLogin(usersById, c.userId,
                                               failed.failedLoginAttempts,
                                               failed.lockoutUntil)
             /\ UNCHANGED <<auditLogEvents, consoleErrors>>
             /\ authTrail' =
                  [authTrail EXCEPT !.wrong[c.userId] =
                     IF failed.lockoutUntil # NoDate THEN 0 ELSE @ + 1]
             /\ authCalls' =
                  [authCalls EXCEPT ![r] =
                     IF failed.lockoutUntil # NoDate
                     THEN AuthEnd(c, 423, "AUTH_ACCOUNT_LOCKED")
                     ELSE AuthEnd(c, 401, "AUTH_INVALID_CREDENTIALS")]
     /\ UNCHANGED <<authFrame, walk, passwordResetTokensByHash, authNow>>

\* POST /v1/auth/password/forgot: requestPasswordReset purges the expired
\* tokens and, for a known email, stores a fresh one; the route records the
\* request and answers 202 either way.
ForgotPassword(r, email, fails) ==
  LET userId == findUserByEmail(email)
      purged == purgeExpiredPasswordResetTokens(passwordResetTokensByHash, authNow)
      token == authTrail.issued + 1
      audited == recordSafely(auditLogEvents, consoleErrors,
                              AuthAuditEvent("auth.password_reset.requested",
                                             "null", "null"),
                              fails)
      c == [IdleAuthCall EXCEPT !.op = "forgot", !.email = email,
                                !.at = authNow, !.userId = userId]
  IN /\ AuthRoom(r)
     /\ userId # "null" => authTrail.issued < MaxResetTokens
     /\ IF userId = "null"
        THEN /\ passwordResetTokensByHash' = purged
             /\ authTrail' = authTrail
             /\ authCalls' = [authCalls EXCEPT ![r] =
                                AuthEnd(c, 202, "AUTH_PASSWORD_RESET_REQUESTED")]
        ELSE /\ passwordResetTokensByHash' =
                  createPasswordResetToken(purged, userId, hashResetToken(token),
                                           authNow + resetTokenTtlMinutes)
             /\ authTrail' = [authTrail EXCEPT !.issued = token]
             /\ authCalls' = [authCalls EXCEPT ![r] =
                                AuthEnd([c EXCEPT !.token = token], 202,
                                        "AUTH_PASSWORD_RESET_REQUESTED")]
     /\ auditLogEvents' = audited.events
     /\ consoleErrors' = audited.errors
     /\ UNCHANGED <<authFrame, walk, usersById, authNow>>

\* POST /v1/auth/password/reset up to consumePasswordResetToken.
ResetConsume(r, token, newPassword) ==
  LET consumed == consumePasswordResetToken(passwordResetTokensByHash,
                                            hashResetToken(token), authNow)
      c == [IdleAuthCall EXCEPT !.op = "reset", !.token = token,
                                !.password = newPassword, !.at = authNow,
                                !.userId = consumed.userId]
  IN /\ AuthRoom(r)
     /\ passwordResetTokensByHash' = consumed.tokens
     /\ authCalls' =
          [authCalls EXCEPT ![r] =
             IF consumed.userId = "null"
             THEN AuthEnd(c, 400, "AUTH_RESET_TOKEN_INVALID")
             ELSE [c EXCEPT !.pc = "update", !.user = usersById[consumed.userId]]]
     /\ UNCHANGED <<authFrame, sinkVars, usersById, authNow, authTrail>>

\* argon2.hash of the new password and updateUserPassword.
ResetUpdate(r) ==
  LET c == authCalls[r]
  IN /\ c.pc = "update"
     /\ usersById' = updateUserPassword(usersById, c.userId,
                                        argon2hash(c.password), c.at)
     /\ authTrail' = [authTrail EXCEPT !.wrong[c.userId] = 0,
                                       !.resets = Append(@, c.token)]
     /\ authCalls' = [authCalls EXCEPT ![r].pc = "clear"]
     /\ UNCHANGED <<authFrame, sinkVars, passwordResetTokensByHash, authNow>>

\* clearFailedLoginState, the return of resetPassword, the audit event of
\* the route and its answer.
ResetClear(r, fails) ==
  LET c == authCalls[r]
      returned == resetPasswordResult(c.userId)
      audited == recordSafely(auditLogEvents, consoleErrors,
                              AuthAuditEvent("auth.password_reset.completed",
                                             returned, returned),
                              fails)
  IN /\ c.pc = "clear"
     /\ usersById' = clearFailedLoginState(usersById, c.userId)
     /\ auditLogEvents' = audited.events
     /\ consoleErrors' = audited.errors
     /\ authCalls' = [authCalls EXCEPT ![r] =
                        AuthEnd([c EXCEPT !.returned = returned], 204, "OK")]
     /\ UNCHANGED <<authFrame, walk, passwordResetTokensByHash, authNow, authTrail>>

\* Time passes.
AuthTick ==
  /\ authNow + 1 \in AuthTimes
  /\ authNow' = authNow + 1
  /\ UNCHANGED <<authFrame, sinkVars, usersById, passwordResetTokensByHash,
                 authCalls, authTrail>>

InitAuthRoutes ==
  /\ InitProgram({MaxLimit})
  /\ InitKeys
  /\ policyCall = NoPolicyCall

\* One caller at a time: logins, reset requests and resets that follow one
\* another.
NextAuth ==
  \/ \E email \in LoginEmails, password \in Passwords : LoginFind(1, email, password)
  \/ \E fails \in BOOLEAN : LoginVerify(1, fails)
  \/ \E email \in LoginEmails, fails \in BOOLEAN : ForgotPassword(1, email, fails)
  \/ \E token \in ResetTokens, newPassword \in Passwords :
       ResetConsume(1, token, newPassword)
  \/ ResetUpdate(1)
  \/ \E fails \in BOOLEAN : ResetClear(1, fails)
  \/ AuthTick

SpecAuth == InitAuthRoutes /\ [][NextAuth]_vars

\* Reset requests and resets of several callers at once.
NextResets ==
  \/ \E r \in AuthSlots :
       \/ ForgotPassword(r, "ann@x", FALSE)
       \/ \E token \in ResetTokens, newPassword \in Passwords :
            ResetConsume(r, token, newPassword)
       \/ ResetUpdate(r)
       \/ ResetClear(r, FALSE)
  \/ AuthTick

SpecResets == InitAuthRoutes /\ [][NextResets]_vars

(***************************************************************************)
(* The usage and API-key repositories called directly, on either           *)
(* implementation: src/migrations/0002_tenancy_rls.sql (in memory),        *)
(* src/src/repositories/postgres-usage-repository.ts and                   *)
(* src/src/repositories/postgres-api-key-repository.ts (durable).          *)
(***************************************************************************)
\* A row of a table under the policies of src/unnamed/part_003 is visible to
\* a statement run after setContext(tenantId) when its tenant is the
\* context's; with the policies not in force every row is visible.
RowVisible(rowTenantId, contextTenantId) ==
  rowSecurity => rowTenantId = contextTenantId

\* SELECT COALESCE(SUM(amount), 0) FROM usage_events
\* WHERE metric = $1 AND created_at >= $2
PostgresSumUsageSince(tenantId, since) ==
  LET visible == {t \in Tenants : RowVisible(t, tenantId)}
      sumTenants[ts \in SUBSET Tenants] ==
        IF ts = {} THEN 0
        ELSE LET t == CHOOSE x \in ts : TRUE
             IN SumOver({c \in Times : c >= since}, usageEvents[t])
                + sumTenants[ts \ {t}]
  IN sumTenants[visible]

\* InMemoryApiKeyRepository.listApiKeys: the ids of the records returned.
listApiKeys(tenantId) ==
  {id \in DOMAIN apiKeysById : apiKeysById[id].tenantId = tenantId}

\* SELECT * FROM api_keys ORDER BY created_at DESC, id DESC
PostgresListApiKeys(tenantId) ==
  {id \in DOMAIN apiKeysById : RowVisible(apiKeysById[id].tenantId, tenantId)}

\* UPDATE api_keys SET revoked_at = COALESCE(revoked_at, $2) WHERE id = $1
PostgresRevokeApiKey(keys, tenantId, apiKeyId, revokedAt) ==
  IF apiKeyId \notin DOMAIN keys THEN keys
  ELSE IF ~RowVisible(keys[apiKeyId].tenantId, tenantId) THEN keys
  ELSE IF keys[apiKeyId].revokedAt = -1
  THEN [keys EXCEPT ![apiKeyId].revokedAt = revokedAt]
  ELSE keys

\* UPDATE api_keys SET last_used_at = $2 WHERE id = $1
PostgresMarkApiKeyUsed(keys, tenantId, apiKeyId, usedAt) ==
  IF apiKeyId \notin DOMAIN keys THEN keys
  ELSE IF ~RowVisible(keys[apiKeyId].tenantId, tenantId) THEN keys
  ELSE [keys EXCEPT ![apiKeyId].lastUsedAt = usedAt]

\* The repository the app was built with.
RepoSum(tenantId, since) ==
  IF backend = "postgres" THEN PostgresSumUsageSince(tenantId, since)
  ELSE sumUsageSince(tenantId, since)

RepoList(tenantId) ==
  IF backend = "postgres" THEN PostgresListApiKeys(tenantId)
  ELSE listApiKeys(tenantId)

RepoRevoke(keys, tenantId, apiKeyId, revokedAt) ==
  IF backend = "postgres"
  THEN PostgresRevokeApiKey(keys, tenantId, apiKeyId, revokedAt)
  ELSE revokeApiKey(keys, tenantId, apiKeyId, revokedAt)

RepoMark(keys, tenantId, apiKeyId, usedAt) ==
  IF backend = "postgres"
  THEN PostgresMarkApiKeyUsed(keys, tenantId, apiKeyId, usedAt)
  ELSE markApiKeyUsed(keys, tenantId, apiKeyId, usedAt)

EventCount ==
  LET countTenants[ts \in SUBSET Tenants] ==
        IF ts = {} THEN 0
        ELSE LET t == CHOOSE x \in ts : TRUE
             IN SumOver(Times, usageEvents[t]) + countTenants[ts \ {t}]
  IN countTenants[Tenants]

Called(op, tenantId, id, sum, ids) ==
  [op |-> op, tenantId |-> tenantId, id |-> id, sum |-> sum, ids |-> ids]

repoFrame == <<memberships, incidentsById, tasks, timeline, statusUpdates,
               quotasByTenantId, defaultDailyWriteLimit, now, requests,
               policyCall, http, backend, rowSecurity, platformVars>>

RepoCreateUsageEvent(tenantId) ==
  /\ EventCount < MaxUsageEvents
  /\ usageEvents' = createUsageEvent(usageEvents, tenantId, now)
  /\ repoCall' = Called("createUsageEvent", tenantId, 0, 0, {})
  /\ UNCHANGED <<repoFrame, apiKeysById>>

RepoSumUsageSince(tenantId) ==
  /\ repoCall' = Called("sumUsageSince", tenantId, 0,
                        RepoSum(tenantId, windowStart), {})
  /\ UNCHANGED <<repoFrame, apiKeysById, usageEvents>>

RepoCreateApiKey(tenantId, scopes) ==
  /\ Len(apiKeysById) < MaxKeys
  /\ scopes # {}
  /\ \E owner \in Users :
       /\ <<tenantId, owner>> \in ServiceAccounts
       /\ apiKeysById' = createApiKey(apiKeysById, tenantId, owner, scopes,
                                       hashKey(Len(apiKeysById) + 1))
  /\ repoCall' = Called("createApiKey", tenantId, Len(apiKeysById) + 1, 0, {})
  /\ UNCHANGED <<repoFrame, usageEvents>>

RepoListApiKeys(tenantId) ==
  /\ repoCall' = Called("listApiKeys", tenantId, 0, 0, RepoList(tenantId))
  /\ UNCHANGED <<repoFrame, apiKeysById, usageEvents>>

RepoRevokeApiKey(tenantId, apiKeyId) ==
  /\ apiKeysById' = RepoRevoke(apiKeysById, tenantId, apiKeyId, now)
  /\ repoCall' = Called("revokeApiKey", tenantId, apiKeyId, 0, {})
  /\ UNCHANGED <<repoFrame, usageEvents>>

RepoMarkApiKeyUsed(tenantId, apiKeyId) ==
  /\ apiKeysById' = RepoMark(apiKeysById, tenantId, apiKeyId, now)
  /\ repoCall' = Called("markApiKeyUsed", tenantId, apiKeyId, 0, {})
  /\ UNCHANGED <<repoFrame, usageEvents>>

\* Time passes between repository calls.
RepoTick ==
  /\ now + QUOTA_WINDOW_HOURS \in Times
  /\ now' = now + QUOTA_WINDOW_HOURS
  /\ repoCall' = NoRepoCall
  /\ UNCHANGED <<memberships, incidentsById, tasks, timeline, statusUpdates,
                 quotasByTenantId, defaultDailyWriteLimit, requests,
                 policyCall, http, backend, rowSecurity, platformVars, apiKeysById,
                 usageEvents>>

\* Either implementation; the durable one with and without the policies of
\* the database in force.
InitRepository ==
  /\ InitProgram({MaxLimit})
  /\ policyCall = NoPolicyCall
  /\ apiKeysById = <<>>
  /\ http = IdleHttp
  /\ InitPlatform
  /\ backend \in {"memory", "postgres"}
  /\ rowSecurity \in BOOLEAN
  /\ backend = "memory" => ~rowSecurity
  /\ repoCall = NoRepoCall

NextRepository ==
  \/ \E t \in Tenants : RepoCreateUsageEvent(t)
  \/ \E t \in Tenants : RepoSumUsageSince(t)
  \/ \E t \in Tenants, s \in SUBSET API_KEY_SCOPES : RepoCreateApiKey(t, s)
  \/ \E t \in Tenants : RepoListApiKeys(t)
  \/ \E t \in Tenants, k \in 1..(MaxKeys + 1) : RepoRevokeApiKey(t, k)
  \/ \E t \in Tenants, k \in 1..(MaxKeys + 1) : RepoMarkApiKeyUsed(t, k)
  \/ RepoTick

SpecRepository == InitRepository /\ [][NextRepository]_vars

(***************************************************************************)
(* Vocabulary of the properties.                                           *)
(***************************************************************************)
\* The edges of the transition table as the design states them.
TableEdges ==
  {<<"declared", "investigating">>, <<"declared", "mitigating">>,
   <<"declared", "monitoring">>, <<"declared", "resolved">>,
   <<"investigating", "mitigating">>, <<"investigating", "monitoring">>,
   <<"investigating", "resolved">>,
   <<"mitigating", "monitoring">>, <<"mitigating", "resolved">>,
   <<"monitoring", "resolved">>,
   <<"resolved", "closed">>}

\* The operations on an identified incident.
IdentifiedKinds ==
  {"getIncident", "updateIncident", "addTimelineEvent", "listTimelineEvents",
   "createTask", "updateTask", "listTasks", "createStatusUpdate", "listStatusUpdates"}

Did(q, step) == \E i \in DOMAIN q.trace : q.trace[i] = step
Times_(q, step) == Cardinality({i \in DOMAIN q.trace : q.trace[i] = step})
Before(q, a, b) ==
  \E i, j \in DOMAIN q.trace : i < j /\ q.trace[i] = a /\ q.trace[j] = b

\* The target incident exists, in another tenant than the caller's.
Foreign(q) ==
  /\ q.op.incidentId \in DOMAIN incidentsById
  /\ incidentsById[q.op.incidentId].tenantId # q.tenantId

\* The target incident exists in the caller's tenant.
Own(q) ==
  /\ q.op.incidentId \in DOMAIN incidentsById
  /\ incidentsById[q.op.incidentId].tenantId = q.tenantId

\* The caller's role holds the permission.
Holds(role, action) == role \in POLICY_RULES[action].allowedRoles

NotFound(q) == q.result.status = 404 /\ q.result.code = "INCIDENT_NOT_FOUND"

(***************************************************************************)
(* C1: for an incident of tenant A, every get, update, timeline, task and  *)
(* status-update operation issued with active tenant B # A ends with       *)
(* NotFound, never with PermissionDenied and never with success, whatever  *)
(* the caller's role in B.  (A mutating request that the write quota        *)
(* refuses never calls the operation.)                                      *)
(***************************************************************************)
C1_CrossTenantNotFound ==
  \A r \in Slots :
    LET q == requests[r]
    IN (q.op.kind \in IdentifiedKinds /\ Foreign(q)) =>
         /\ q.pc \notin {"find_task", "apply", "audit"}
         /\ q.result.code \notin {"PERMISSION_DENIED", "OK"}
         /\ (q.pc = "done" /\ Did(q, "membership")) => NotFound(q)

C1_Witness ==
  \E r \in Slots :
    LET q == requests[r]
    IN /\ q.pc = "done"
       /\ q.op.kind = "updateTask"
       /\ Foreign(q)
       /\ q.op.taskId \in DOMAIN tasks
       /\ tasks[q.op.taskId].incidentId = q.op.incidentId
       /\ q.membership = "Admin"
       /\ NotFound(q)

(***************************************************************************)
(* C2: a member who targets a resource that exists in the tenant but lacks *)
(* the permission for the requested action receives PermissionDenied; a    *)
(* caller who targets an id never created or of another tenant receives    *)
(* NotFound, the same response in both cases.                              *)
(***************************************************************************)
\* The resource the operation names exists in the caller's tenant.
TargetExists(q) ==
  /\ Own(q)
  /\ q.op.kind = "updateTask" =>
       findTaskById(q.tenantId, q.op.incidentId, q.op.taskId) # NullTask

C2_ExistenceBeforePermission ==
  \A r \in Slots :
    LET q == requests[r]
    IN (q.pc = "done" /\ q.op.kind \in IdentifiedKinds /\ Did(q, "membership")) =>
         /\ (TargetExists(q) /\ firstDenied(requiredActions(q.op), q.membership) # 0)
              => (q.result.status = 403 /\ q.result.code = "PERMISSION_DENIED")
         /\ ~Own(q) => q.result = Failure(404, "INCIDENT_NOT_FOUND")

(***************************************************************************)
(* C3: for a caller holding the required permissions, an update that       *)
(* requests a target status succeeds for every edge of the transition      *)
(* table and for every self-transition, and fails with                     *)
(* StatusTransitionInvalid naming source and target for every other pair.  *)
(***************************************************************************)
C3_TransitionTable ==
  \A r \in Slots :
    LET q == requests[r]
        from == q.current.status
        to == q.op.status
    IN (/\ q.pc = "done"
        /\ q.op.kind = "updateIncident"
        /\ to # "undefined"
        /\ Did(q, "exists")
        /\ firstDenied(requiredActions(q.op), q.membership) = 0) =>
         IF from = to \/ <<from, to>> \in TableEdges
         THEN /\ q.result.code = "OK"
              /\ q.result.status = 200
              /\ incidentsById[q.op.incidentId].status = to
         ELSE /\ q.result = [Failure(400, "INCIDENT_STATUS_TRANSITION_INVALID")
                               EXCEPT !.from = from, !.to = to]
              /\ incidentsById[q.op.incidentId].status = from

C3_Witness ==
  \E r \in Slots :
    LET q == requests[r]
    IN /\ q.pc = "done"
       /\ q.op.kind = "updateIncident"
       /\ q.current.status = "closed"
       /\ q.op.status = "closed"
       /\ q.result.code = "OK"

(***************************************************************************)
(* C4: every incident is created in status declared; across any sequence   *)
(* of update requests each change of its stored status is an edge of the   *)
(* transition table; once the stored status is closed it never changes.    *)
(***************************************************************************)
C4_StoredStatusFollowsTable ==
  [][/\ Len(incidentsById') >= Len(incidentsById)
     /\ \A i \in DOMAIN incidentsById' :
          IF i \notin DOMAIN incidentsById
          THEN incidentsById'[i].status = "declared"
          ELSE /\ incidentsById'[i].status # incidentsById[i].status =>
                    <<incidentsById[i].status, incidentsById'[i].status>> \in TableEdges
               /\ incidentsById[i].status = "closed" =>
                    incidentsById'[i].status = "closed"]_vars

C4_Witness ==
  \E r \in Slots :
    LET q == requests[r]
    IN /\ q.pc = "done"
       /\ q.op.kind = "updateIncident"
       /\ q.current.status = "closed"
       /\ q.op.status = "investigating"
       /\ q.membership = "Owner"
       /\ q.result.code = "INCIDENT_STATUS_TRANSITION_INVALID"
       /\ incidentsById[q.op.incidentId].status = "closed"

(***************************************************************************)
(* C5, as claimed: an update that moves an incident into resolved or       *)
(* closed is allowed only if the caller holds incidents.resolve and also   *)
(* incidents.update, and an update that changes severity only if the       *)
(* caller holds incidents.change_severity and also incidents.update: the   *)
(* stronger permissions are checked in addition to the base update         *)
(* permission, not in its place.                                           *)
(***************************************************************************)
C5_CheckedInAddition ==
  \A r \in Slots :
    LET q == requests[r]
    IN (q.op.kind = "updateIncident" /\ Did(q, "write")) =>
         /\ q.op.status \in {"resolved", "closed"} =>
              /\ Holds(q.membership, "incidents.resolve")
              /\ Holds(q.membership, "incidents.update")
              /\ Did(q, "incidents.resolve")
              /\ Did(q, "incidents.update")
         /\ q.op.severity # "undefined" =>
              /\ Holds(q.membership, "incidents.change_severity")
              /\ Holds(q.membership, "incidents.update")
              /\ Did(q, "incidents.change_severity")
              /\ Did(q, "incidents.update")

(***************************************************************************)
(* C5, amended: an update that moves an incident into resolved or closed   *)
(* is allowed only if the caller holds incidents.resolve, which is checked *)
(* in place of incidents.update; every other update is allowed only if the *)
(* caller holds incidents.update; an update that changes severity is       *)
(* allowed only if the caller also holds incidents.change_severity, which  *)
(* is checked in addition to whichever of the two applies.                 *)
(***************************************************************************)
C5_CheckedInPlace ==
  \A r \in Slots :
    LET q == requests[r]
    IN (q.op.kind = "updateIncident" /\ Did(q, "write")) =>
         /\ IF q.op.status \in {"resolved", "closed"}
            THEN /\ Holds(q.membership, "incidents.resolve")
                 /\ Did(q, "incidents.resolve")
                 /\ ~Did(q, "incidents.update")
            ELSE /\ Holds(q.membership, "incidents.update")
                 /\ Did(q, "incidents.update")
                 /\ ~Did(q, "incidents.resolve")
         /\ q.op.severity # "undefined" =>
              /\ Holds(q.membership, "incidents.change_severity")
              /\ Did(q, "incidents.change_severity")
              /\ Before(q, IF q.op.status \in {"resolved", "closed"}
                           THEN "incidents.resolve" ELSE "incidents.update",
                        "incidents.change_severity")

C5_Witness ==
  \E r \in Slots :
    LET q == requests[r]
    IN /\ q.pc = "done"
       /\ q.op.kind = "updateIncident"
       /\ q.op.status = "resolved"
       /\ q.op.severity = "SEV1"
       /\ q.result.code = "OK"
       /\ incidentsById[q.op.incidentId].status = "resolved"
       /\ incidentsById[q.op.incidentId].severity = "SEV1"
       /\ ~Did(q, "incidents.update")

(***************************************************************************)
(* C6: in an incident update the status-transition check runs after the    *)
(* existence and permission checks and before the repository write: a      *)
(* request that fails the existence or the permission check is rejected    *)
(* with that failure whether or not the requested transition is valid, and *)
(* no write happens when the transition is invalid.                        *)
(***************************************************************************)
C6_TransitionAfterPermission ==
  \A r \in Slots :
    LET q == requests[r]
    IN (q.op.kind = "updateIncident" /\ q.pc = "done" /\ Did(q, "membership")) =>
         /\ ~Own(q) => NotFound(q)
         /\ (Own(q) /\ firstDenied(requiredActions(q.op), q.membership) # 0) =>
              q.result.code = "PERMISSION_DENIED"
         /\ q.result.code = "INCIDENT_STATUS_TRANSITION_INVALID" => ~Did(q, "write")

(***************************************************************************)
(* C7: for a tenant with dailyWriteLimit L, successive write-quota         *)
(* consumptions succeed while fewer than L usage events are in the window, *)
(* each reporting one more than the number before it (1, 2, ..., L from an *)
(* empty window); the next one fails with QuotaExceeded carrying limit L   *)
(* and used L, records no usage event and leaves used at L; the usage      *)
(* summary reports the used count, the limit and limit minus used          *)
(* (used L, limit L, remaining 0 after the rejection).                     *)
(***************************************************************************)
UsedNow(t) == sumUsageSince(t, windowStart)

C7_QuotaCountsToLimit ==
  [][\A r \in Slots :
       LET q == requests[r]
           after == requests'[r]
           t == q.tenantId
           L == defaultDailyWriteLimit
       IN /\ (q.pc = "quota_write" /\ after.pc # "quota_write") =>
               IF UsedNow(t) < L
               THEN /\ after.pc = "membership"
                    /\ after.summary.used = UsedNow(t) + 1
                    /\ after.summary.limit = L
                    /\ UsedNow(t)' = UsedNow(t) + 1
               ELSE /\ UsedNow(t) = L
                    /\ after.pc = "done"
                    /\ after.result.status = 429
                    /\ after.result.code = "QUOTA_EXCEEDED"
                    /\ after.result.limit = L
                    /\ after.result.used = L
                    /\ usageEvents' = usageEvents
          /\ (q.pc = "apply" /\ q.op.kind = "getUsageSummary"
              /\ after.result.code = "OK") =>
               /\ UsedNow(t) <= L
               /\ after.result.summary =
                    [used |-> UsedNow(t), limit |-> L, remaining |-> L - UsedNow(t)]]_vars

C7_Witness ==
  \E r \in Slots :
    LET q == requests[r]
    IN /\ q.pc = "done"
       /\ q.result.code = "QUOTA_EXCEEDED"
       /\ defaultDailyWriteLimit = MaxLimit
       /\ q.result.limit = MaxLimit
       /\ q.result.used = MaxLimit
       /\ UsedNow(q.tenantId) = MaxLimit

(***************************************************************************)
(* C8: each mutating incident, task, timeline or status-update request     *)
(* consumes exactly one unit of write quota, and the consumption happens   *)
(* before the domain operation runs; a request rejected with QuotaExceeded *)
(* consumes none and performs no domain write.                             *)
(***************************************************************************)
DomainStore == <<incidentsById, tasks, timeline, statusUpdates>>

C8_OneUnitBeforeTheOperation ==
  /\ [](\A r \in Slots :
          LET q == requests[r]
          IN q.op.kind \in MutatingKinds =>
               /\ Times_(q, "quota") <= 1
               /\ (Did(q, "membership") \/ Did(q, "parse") \/ Did(q, "write")) =>
                    Times_(q, "quota") = 1
               /\ Did(q, "write") => Before(q, "quota", "write")
               /\ (q.pc = "done" /\ q.result.code # "QUOTA_EXCEEDED") =>
                    Times_(q, "quota") = 1
               /\ q.result.code = "QUOTA_EXCEEDED" =>
                    ~Did(q, "quota") /\ ~Did(q, "write"))
  /\ [][/\ usageEvents' # usageEvents =>
             \E r \in Slots :
               /\ requests'[r].trace = requests[r].trace \o <<"quota">>
               /\ usageEvents' =
                    [usageEvents EXCEPT ![requests[r].tenantId][now] = @ + 1]
        /\ DomainStore' # DomainStore =>
             \E r \in Slots :
               /\ Did(requests[r], "quota")
               /\ ~Did(requests[r], "write")
               /\ Did(requests'[r], "write")]_vars

C8_Witness ==
  \E r \in Slots :
    LET q == requests[r]
    IN /\ q.pc = "done"
       /\ q.op.kind = "updateTask"
       /\ q.result.code = "OK"
       /\ tasks[q.op.taskId].status = "completed"
       /\ Before(q, "quota", "write")

(***************************************************************************)
(* C9: a mutating request runs its steps in the order principal            *)
(* resolution, membership lookup, policy decision, quota consumption,      *)
(* repository write, audit record: write quota is consumed only after the  *)
(* membership lookup and the policy decision of the request have passed.   *)
(***************************************************************************)
C9_QuotaAfterPolicy ==
  \A r \in Slots :
    LET q == requests[r]
    IN (q.op.kind \in MutatingKinds /\ Did(q, "quota")) =>
         /\ Before(q, "principal", "quota")
         /\ Before(q, "membership", "quota")
         /\ \E a \in POLICY_ACTIONS : Before(q, a, "quota")
         /\ q.result.code \notin {"PERMISSION_DENIED", "TENANT_NOT_FOUND"}

(***************************************************************************)
(* C10: the quota check and the usage-event write are a read-then-write    *)
(* pair with no compare-and-swap: a usage event is written exactly when    *)
(* the sum the request read earlier is below the limit, whatever the sum   *)
(* is at the time of the write, so requests of one tenant that run         *)
(* concurrently can be admitted beyond dailyWriteLimit within one window.  *)
(***************************************************************************)
C10_ReadThenWrite ==
  [][\A r \in Slots :
       LET q == requests[r]
           t == q.tenantId
       IN (q.pc = "quota_write" /\ requests'[r].pc # "quota_write") =>
            /\ (usageEvents' # usageEvents) <=> (q.used + 1 <= q.limit)
            /\ (usageEvents' # usageEvents /\ UsedNow(t) >= q.limit) =>
                 q.used < UsedNow(t)]_vars

C10_Witness ==
  \E t \in Tenants :
    /\ quotasByTenantId[t] # 0
    /\ UsedNow(t) > quotasByTenantId[t]

(***************************************************************************)
(* C11: the used count of a tenant is the sum of the amounts of its usage  *)
(* events created at or after now minus the window length; older events    *)
(* stop counting, so a tenant that was at its limit is admitted again once *)
(* enough earlier events have aged out of the window.                      *)
(***************************************************************************)
TotalEvents(t) == SumOver(Times, usageEvents[t])
AgedOut(t) ==
  SumOver({c \in Times : c + QUOTA_WINDOW_HOURS < now}, usageEvents[t])
InWindow(t) == TotalEvents(t) - AgedOut(t)

C11_UsedIsWindowSum ==
  [][\A r \in Slots :
       LET q == requests[r]
           after == requests'[r]
           t == q.tenantId
       IN /\ (q.pc = "quota_read" /\ after.pc = "quota_write") =>
               after.used = InWindow(t)
          /\ (q.pc = "quota_write" /\ after.pc # "quota_write") =>
               /\ (after.pc = "membership") <=> (InWindow(t) < q.limit)
               /\ (after.pc = "membership") => InWindow(t)' = InWindow(t) + 1
               /\ (after.pc = "done") =>
                    /\ after.result.code = "QUOTA_EXCEEDED"
                    /\ after.result.used = InWindow(t)
          /\ (q.pc = "apply" /\ q.op.kind = "getUsageSummary"
              /\ after.result.code = "OK") =>
               after.result.summary.used = InWindow(t)]_vars

C11_Witness ==
  \E r \in Slots :
    LET q == requests[r]
        t == q.tenantId
    IN /\ q.pc = "membership"
       /\ Did(q, "quota")
       /\ quotasByTenantId[t] # 0
       /\ TotalEvents(t) > quotasByTenantId[t]
       /\ AgedOut(t) > 0
       /\ usageEvents[t][now] > 0

(***************************************************************************)
(* C14: the response to an identified-resource request is the same for an  *)
(* object that does not exist, an object of another tenant and an object   *)
(* of the caller's tenant that the caller may not see.                     *)
(***************************************************************************)
\* The target incident exists in the caller's tenant and the caller's role
\* may not read incidents.
Unseeable(q) == Own(q) /\ ~Holds(q.membership, "incidents.read")

RolesOf(call) == {call.orgRoles[i] : i \in DOMAIN call.orgRoles}

ResponderIncidentRoles ==
     ("incidents.assign_incident_roles" :> {"IC"})
  @@ ("updates.publish_external" :> {"IC", "CL"})
  @@ ("postmortems.publish" :> {"IC"})

C16_ResponderNeedsIncidentRole ==
  LET c == policyCall
  IN (c.decision # "none" /\ c.action \in DOMAIN ResponderIncidentRoles) =>
       /\ RolesOf(c) \cap {"Owner", "Admin"} # {} => c.decision = "allowed"
       /\ ("Responder" \in RolesOf(c) /\ RolesOf(c) \cap {"Owner", "Admin"} = {}) =>
            (c.decision = "denied" <=>
               c.incidentRoles \cap ResponderIncidentRoles[c.action] = {})
       /\ (c.action = "updates.publish_external" /\ c.orgRoles = <<"Responder">>) =>
            /\ c.incidentRoles = {"SME"} => c.decision = "denied"
            /\ c.incidentRoles \in {{"IC"}, {"CL"}} => c.decision = "allowed"

C16_Witness ==
  /\ policyCall.action = "updates.publish_external"
  /\ policyCall.orgRoles = <<"Responder">>
  /\ policyCall.incidentRoles = {"SME", "CL"}
  /\ policyCall.decision = "allowed"

(***************************************************************************)
(* C12: every list, get and mutate operation of every repository filters   *)
(* by the resolved tenant id: no repository operation reads or writes a    *)
(* record selected by id, or by any other key, alone without also matching *)
(* the tenant.                                                             *)
(***************************************************************************)
C12_EveryOperationMatchesTenant ==
  /\ [](/\ repoCall.op = "listApiKeys" =>
             \A id \in repoCall.ids :
               apiKeysById[id].tenantId = repoCall.tenantId
        /\ repoCall.op = "sumUsageSince" =>
             repoCall.sum =
               SumOver({c \in Times : c >= windowStart},
                       usageEvents[repoCall.tenantId]))
  /\ [][\A id \in DOMAIN apiKeysById :
          apiKeysById'[id] # apiKeysById[id] =>
            apiKeysById[id].tenantId = repoCall'.tenantId]_vars

(***************************************************************************)
(* C13: no sequence of operations performed in tenant B changes the result *)
(* of any read in tenant A (here usage sums and API-key lists), on the     *)
(* in-memory and on the durable repository implementation alike, without   *)
(* relying on a backing row-security mechanism.                            *)
(***************************************************************************)
\* The call is one the services make: markApiKeyUsed is only ever called
\* with the tenant of the key it names.
ServiceShaped(call) ==
  call.op = "markApiKeyUsed" =>
    (call.id \in DOMAIN apiKeysById =>
       apiKeysById[call.id].tenantId = call.tenantId)

ReadsOf(tenantId, keys, events) ==
  [keys |-> {<<id, keys[id]>> : id \in
               {k \in DOMAIN keys : IF backend = "postgres"
                                    THEN RowVisible(keys[k].tenantId, tenantId)
                                    ELSE keys[k].tenantId = tenantId}},
   sums |-> [since \in Times |->
               LET counted == {t \in Tenants :
                                 IF backend = "postgres"
                                 THEN RowVisible(t, tenantId)
                                 ELSE t = tenantId}
                   total[ts \in SUBSET Tenants] ==
                     IF ts = {} THEN 0
                     ELSE LET t == CHOOSE x \in ts : TRUE
                          IN SumOver({c \in Times : c >= since}, events[t])
                             + total[ts \ {t}]
               IN total[counted]]]

C13_OtherTenantsReadsUnchanged ==
  [][(repoCall'.op # "none" /\ ServiceShaped(repoCall')) =>
       \A a \in Tenants \ {repoCall'.tenantId} :
         ReadsOf(a, apiKeysById', usageEvents')
           = ReadsOf(a, apiKeysById, usageEvents)]_vars

(***************************************************************************)
(* C17: when a request carries an API key header the API-key lane takes    *)
(* precedence: the request acts as the API-key principal bound to the      *)
(* key's own tenant, whatever session identity and session active tenant   *)
(* come along; a session principal is built from the session identity only *)
(* when no API key header is present.                                      *)
(***************************************************************************)
Routed(h) == h.pc = "done" /\ h.code = "ROUTED"

C17_ApiKeyLaneFirst ==
  /\ http.header # 0 => http.authContext.authType # "session"
  /\ http.authContext.authType = "session" =>
       /\ http.header = 0
       /\ http.authContext.userId = http.sessionUserId
       /\ http.authContext.tenantId = http.activeTenantId
  /\ (Routed(http) /\ http.header # 0) =>
       /\ http.authContext.authType = "api_key"
       /\ http.found \in DOMAIN apiKeysById
       /\ apiKeysById[http.found].keyHash = hashKey(http.header)
       /\ http.tenantId = apiKeysById[http.found].tenantId
       /\ http.userId = apiKeysById[http.found].ownerUserId
  /\ (Routed(http) /\ http.header = 0) =>
       /\ http.authContext.authType = "session"
       /\ http.userId = http.sessionUserId
       /\ http.tenantId = http.activeTenantId

C17_Witness ==
  /\ Routed(http)
  /\ http.header = 1
  /\ http.sessionUserId = "u2"
  /\ http.activeTenantId = "tB"
  /\ http.tenantId = "tA"
  /\ http.userId = "u1"

(***************************************************************************)
(* C18: a valid, unrevoked key passes the API-key middleware on a GET,     *)
(* HEAD or OPTIONS request if and only if its scopes include read, and on  *)
(* any other method if and only if its scopes include write; a key lacking *)
(* the needed scope is rejected with 403 API_KEY_SCOPE_DENIED and never    *)
(* with the 401 authentication failure of invalid keys.                    *)
(***************************************************************************)
NeededScope(method) ==
  IF method \in {"GET", "HEAD", "OPTIONS"} THEN "read" ELSE "write"

C18_ScopeGatesMethod ==
  [][(http.pc = "marked" /\ ~http.markFailed /\ http'.pc = "done") =>
       LET key == apiKeysById[http.found]
           lacking == NeededScope(http.method) \notin key.scopes
       IN /\ lacking <=> (http'.code = "API_KEY_SCOPE_DENIED")
          /\ lacking => http'.status = 403
          /\ http'.status # 401 /\ http'.code # "AUTH_INVALID_API_KEY"
          /\ http'.authContext.authType = "api_key"
          /\ http'.authContext.scopes = key.scopes]_vars

C18_Witness ==
  /\ http.pc = "done"
  /\ http.method = "POST"
  /\ http.found \in DOMAIN apiKeysById
  /\ apiKeysById[http.found].scopes = {"read"}
  /\ apiKeysById[http.found].revokedAt = -1
  /\ http.status = 403
  /\ http.code = "API_KEY_SCOPE_DENIED"

(***************************************************************************)
(* C19: a freshly created key authenticates; once it is revoked, the same  *)
(* raw key fails authentication with 401 AUTH_INVALID_API_KEY on every     *)
(* later request and for every method, with the failure an unknown         *)
(* well-formed key gets, never with API_KEY_SCOPE_DENIED; no operation     *)
(* makes a revoked key valid again.  (The key authenticates when the       *)
(* storage behind the repository answers its calls.)                       *)
(***************************************************************************)
InvalidKey(h) == h.pc = "done" /\ h.status = 401 /\ h.code = "AUTH_INVALID_API_KEY"

C19_RevokedKeyStaysInvalid ==
  /\ [](/\ http.revoked =>
             /\ http.found = 0
             /\ http.pc \in {"find", "done"}
             /\ http.authContext = NoAuthContext
             /\ http.code # "API_KEY_SCOPE_DENIED"
             /\ http.pc = "done" => InvalidKey(http)
        /\ (http.pc = "done" /\ http.header = MaxKeys + 1) =>
             /\ InvalidKey(http)
             /\ http.authContext = NoAuthContext
        /\ (http.pc = "done" /\ http.header \in ApiKeyIds /\ ~http.revoked
            /\ ~http.markFailed) =>
             /\ http.authContext.authType = "api_key"
             /\ ~InvalidKey(http))
  /\ [][\A k \in DOMAIN apiKeysById :
          apiKeysById[k].revokedAt # -1 =>
            /\ k \in DOMAIN apiKeysById'
            /\ apiKeysById'[k].revokedAt = apiKeysById[k].revokedAt]_vars

C19_Witness ==
  /\ http.revoked
  /\ InvalidKey(http)
  /\ http.method = "POST"
  /\ apiKeysById[http.header].scopes = {"read"}
  /\ apiKeysById[http.header].lastUsedAt # -1

(***************************************************************************)
(* C20: a successful API-key authentication updates the key's last-used    *)
(* timestamp, and a failure of that update does not fail the request: the  *)
(* request is authenticated and proceeds as if the update had succeeded.   *)
(***************************************************************************)
C20_LastUsedIsBestEffort ==
  /\ [][(http.pc = "owner" /\ http'.pc = "marked" /\ ~http'.markFailed) =>
          apiKeysById'[http.found].lastUsedAt = now]_vars
  /\ []((http.pc = "done" /\ http.markFailed) =>
          /\ http.authContext.authType = "api_key"
          /\ http.status # 500)

(***************************************************************************)
(* C21: every operation that lists, creates or revokes API keys or service *)
(* accounts succeeds only for a session principal; a request authenticated *)
(* by an API key is rejected on all of them, whatever the key's scopes and *)
(* whatever the role of the key's owner.                                   *)
(***************************************************************************)
KeysManaged(before, after) ==
  \/ Len(after) # Len(before)
  \/ \E id \in DOMAIN before : after[id].revokedAt # before[id].revokedAt

C21_ManagementNeedsSession ==
  /\ []((http.route \in ManagementRoutes /\ http.header # 0) =>
          /\ http.pc # "handler"
          /\ http.pc = "done" =>
               /\ http.status \in {401, 403}
               /\ http.authContext.authType = "api_key" =>
                    /\ http.status = 403
                    /\ http.code \in {"API_KEY_SCOPE_DENIED", "CSRF_TOKEN_INVALID",
                                      "PERMISSION_DENIED"})
  /\ [][(\/ serviceAccountsById' # serviceAccountsById
         \/ KeysManaged(apiKeysById, apiKeysById')
         \/ http.pc = "handler" /\ http'.code = "OK") =>
          /\ http.authContext.authType = "session"
          /\ http.header = 0
          /\ http.userId = http.sessionUserId]_vars

C21_Witness ==
  /\ http.pc = "done"
  /\ http.route = "createApiKey"
  /\ http.csrf
  /\ http.authContext.authType = "api_key"
  /\ http.authContext.scopes = {"read", "write"}
  /\ getMembership(http.authContext.tenantId, http.authContext.userId) = "Owner"
  /\ http.status = 403
  /\ http.code = "PERMISSION_DENIED"

(***************************************************************************)
(* C22: a mutating request is accepted only if it carries a CSRF token     *)
(* equal to the one issued to its current session; the sole exception is a *)
(* request authenticated by an API key, which is accepted without any CSRF *)
(* token.                                                                  *)
(***************************************************************************)
Mutating(h) == h.pc = "done" /\ h.method \notin SAFE_METHODS

C22_CsrfExceptForApiKeys ==
  /\ (Mutating(http) /\ http.code = "ROUTED"
      /\ http.authContext.authType = "session") => http.csrf
  /\ (Mutating(http) /\ http.authContext.authType = "api_key"
      /\ "write" \in http.authContext.scopes /\ ~http.csrf) =>
       http.code = "ROUTED"

\* A membership exists for (tenant, user) in the store of the backend.
MemberOf(tenantId, userId) ==
  IF backend = "postgres" THEN RowsOf(membershipRows, tenantId, userId) # {}
  ELSE /\ <<tenantId, userId>> \in DOMAIN memberships
       /\ memberships[<<tenantId, userId>>] # "null"

Succeeds(r) ==
  /\ accepts[r].pc # "done"
  /\ accepts'[r].pc = "done"
  /\ accepts'[r].status = 200

\* C24: an invite is accepted at most once: an acceptance that succeeds
\* finds its invite not yet accepted, whatever the interleaving of the
\* attempts.
C24_InviteOneTimeUse ==
  [][\A r \in AcceptSlots :
       Succeeds(r) => invitesById[accepts'[r].inviteId].acceptedAt = -1]_vars

\* The user's email equals the invite's, ignoring case.
EmailMatches(invite, userId) ==
  toLowerCase(invite.email) = toLowerCase(UserEmail(userId))

\* The acceptance in slot r answers 400 in this step.
Rejected(r) ==
  /\ accepts[r].pc # "done"
  /\ accepts'[r].pc = "done"
  /\ accepts'[r].status = 400

\* The acceptance in slot r is at its repository call, for an invite that
\* exists and that is expired by the bound given or sent to another email.
Lapsed(r, expired(_, _)) ==
  LET inviteId == findInviteByTokenHash(hashToken(accepts[r].token))
  IN /\ accepts[r].pc = "call"
     /\ accepts'[r] # accepts[r]
     /\ inviteId # 0
     /\ \/ expired(invitesById[inviteId].expiresAt, now)
        \/ ~EmailMatches(invitesById[inviteId], accepts[r].userId)

PastExpiry(expiresAt, at) == expiresAt < at
NotInFuture(expiresAt, at) == expiresAt <= at

\* C25 as stated: an acceptance succeeds only if expiresAt is in the
\* future at the time of the attempt and the emails are equal ignoring
\* case; otherwise it fails as invalid and changes neither the invite nor
\* any membership.
C25_ExpiryInFuture ==
  [][\A r \in AcceptSlots :
       /\ Succeeds(r) =>
            /\ invitesById[accepts'[r].inviteId].expiresAt > accepts'[r].at
            /\ EmailMatches(invitesById[accepts'[r].inviteId], accepts'[r].userId)
       /\ Lapsed(r, NotInFuture) => Rejected(r)
       /\ Rejected(r) =>
            /\ accepts'[r].code = "INVITE_INVALID"
            /\ invitesById' = invitesById
            /\ memberships' = memberships
            /\ membershipRows' = membershipRows]_vars

\* C25, amended: an acceptance succeeds only if expiresAt is not before
\* the time of the attempt and the emails are equal ignoring case; an
\* attempt past expiresAt or with another email fails as invalid, and a
\* failed attempt changes neither the invite nor any membership.
C25_AcceptanceChecked ==
  [][\A r \in AcceptSlots :
       /\ Succeeds(r) =>
            /\ invitesById[accepts'[r].inviteId].expiresAt >= accepts'[r].at
            /\ EmailMatches(invitesById[accepts'[r].inviteId], accepts'[r].userId)
       /\ Lapsed(r, PastExpiry) => Rejected(r)
       /\ Rejected(r) =>
            /\ accepts'[r].code = "INVITE_INVALID"
            /\ invitesById' = invitesById
            /\ memberships' = memberships
            /\ membershipRows' = membershipRows]_vars

\* An acceptance at the instant of expiresAt succeeded.
C25_Witness ==
  \E r \in AcceptSlots :
    /\ accepts[r].pc = "done"
    /\ accepts[r].status = 200
    /\ invitesById[accepts[r].inviteId].expiresAt = accepts[r].at
    /\ invitesById[accepts[r].inviteId].acceptedByUserId = accepts[r].userId

\* C26: there is at most one membership for each (tenant, user) pair, and
\* an acceptance by a user who is already a member leaves one membership,
\* with the role of the invite.
C26_OneMembershipPerPair ==
  [][/\ \A t \in AllTenants, u \in Users :
          Cardinality(RowsOf(membershipRows', t, u)) <= 1
     /\ \A r \in AcceptSlots :
          Succeeds(r) =>
            LET invite == invitesById'[accepts'[r].inviteId]
                u == accepts'[r].userId
            IN IF backend = "postgres"
               THEN RowsOf(membershipRows', invite.tenantId, u)
                      = {MembershipRow(invite.tenantId, u, invite.role)}
               ELSE memberships'[<<invite.tenantId, u>>] = invite.role]_vars

\* A member of the tenant accepted an invite to it with another role.
C26_Witness ==
  \E r \in AcceptSlots :
    /\ accepts[r].pc = "done"
    /\ accepts[r].status = 200
    /\ SeedMemberships[<<invitesById[accepts[r].inviteId].tenantId,
                         accepts[r].userId>>] \notin
         {"null", invitesById[accepts[r].inviteId].role}
    /\ MemberOf(invitesById[accepts[r].inviteId].tenantId, accepts[r].userId)

\* The role of the membership of (tenant, user) in the store of the
\* backend, "null" for none.
RoleOf(tenantId, userId) ==
  IF MemberOf(tenantId, userId) THEN TenantMembership(tenantId, userId)
  ELSE "null"

\* C27: the mark on the invite and the membership are written together or
\* not at all: an accepted invite has a membership for (tenant,
\* acceptedByUserId), and a membership changes, other than by the creation
\* of a tenant, only together with an invite of that tenant being accepted
\* by that user with that role, also when a statement of the acceptance
\* fails.
C27_AcceptanceIsAtomic ==
  [][/\ \A t \in AllTenants, u \in Users :
          (\E i \in DOMAIN invitesById' :
             /\ invitesById'[i].acceptedAt # -1
             /\ invitesById'[i].tenantId = t
             /\ invitesById'[i].acceptedByUserId = u) => MemberOf(t, u)'
     /\ \A t \in AllTenants, u \in Users :
          (RoleOf(t, u)' # RoleOf(t, u) /\ tenantsById' = tenantsById) =>
            \E i \in DOMAIN invitesById' :
              /\ invitesById'[i].acceptedAt # -1
              /\ invitesById'[i].acceptedByUserId = u
              /\ invitesById'[i].tenantId = t
              /\ invitesById'[i].role = RoleOf(t, u)']_vars

\* An acceptance failed with a storage error and left the invite
\* unaccepted and its user without a membership.
C27_Witness ==
  \E r \in AcceptSlots :
    /\ accepts[r].pc = "done"
    /\ accepts[r].status = 500
    /\ invitesById[accepts[r].inviteId].acceptedAt = -1
    /\ ~MemberOf(invitesById[accepts[r].inviteId].tenantId, accepts[r].userId)

\* The rows of the tenant the client lists, and the limit in force.
ListedOfTenant == {row \in walk.rows : row.tenantId = "tA"}
LimitInForce == IF walk.limit < listMaxLimit THEN walk.limit ELSE listMaxLimit

\* The number of rows of the list that come before the row with the id in
\* (createdAt DESC, id DESC) order.
RowsBefore(id) ==
  LET row == CHOOSE r \in ListedOfTenant : r.id = id
  IN Cardinality({other \in ListedOfTenant :
                    \/ other.createdAt > row.createdAt
                    \/ other.createdAt = row.createdAt /\ other.id > row.id})

FirstPage == walk.pc = "paging" /\ walk.cursor = NoCursor
LastPage == walk.pc = "paging" /\ walk.nextCursor = NoCursor

\* C28: with more rows than the limit the first page has limit rows and a
\* cursor; the pages met by following the cursors are, one after another,
\* the rows in (createdAt DESC, id DESC) order with none twice and none
\* left out, also when rows share their createdAt.
C28_PagesVisitEveryRowOnce ==
  /\ (FirstPage /\ LimitInForce < Cardinality(ListedOfTenant)) =>
       (Len(walk.page) = LimitInForce /\ walk.nextCursor # NoCursor)
  /\ \A i \in DOMAIN walk.seen :
       /\ \E row \in ListedOfTenant : row.id = walk.seen[i]
       /\ RowsBefore(walk.seen[i]) = i - 1
  /\ LastPage => Len(walk.seen) = Cardinality(ListedOfTenant)

\* C29: a page has a cursor exactly when it has as many rows as the limit,
\* and a client following the cursors over rows that do not change comes
\* to a page without one.
C29_CursorEndsTheList ==
  /\ [](walk.pc = "paging" =>
          (walk.nextCursor # NoCursor <=> Len(walk.page) = LimitInForce))
  /\ <>LastPage

\* After a page as long as the limit, the page its cursor led to was empty
\* and ended the list.
C29_Witness ==
  /\ LastPage
  /\ walk.cursor # NoCursor
  /\ walk.page = <<>>
  /\ Len(walk.seen) = LimitInForce

\* C30: recordSafely never raises: when the audit event cannot be stored
\* the failure is written to the error log, and the route answers as it
\* does when the event is stored, with the business data as the operation
\* left it.
C30_AuditFailureIsSwallowed ==
  [][\A r \in Slots :
       (requests[r].pc = "audit" /\ requests'[r].pc = "done") =>
         /\ requests'[r].result =
              [NoResult EXCEPT !.status = successStatus(requests[r].op.kind),
                               !.code = "OK"]
         /\ \/ /\ Len(auditLogEvents') = Len(auditLogEvents) + 1
               /\ consoleErrors' = consoleErrors
            \/ /\ auditLogEvents' = auditLogEvents
               /\ consoleErrors' = consoleErrors + 1
         /\ <<incidentsById, tasks, timeline, statusUpdates, quotasByTenantId,
              usageEvents>>' =
              <<incidentsById, tasks, timeline, statusUpdates, quotasByTenantId,
                usageEvents>>]_vars

\* An incident was created and answered 201 although its audit event
\* was not stored.
C30_Witness ==
  /\ requests[1].pc = "done"
  /\ requests[1].op.kind = "createIncident"
  /\ requests[1].result.status = 201
  /\ Len(incidentsById) = 1
  /\ auditLogEvents = <<>>
  /\ consoleErrors = 1

\* An auth request ends in this step.
AuthFinishes(r) == authCalls'[r] # authCalls[r] /\ authCalls'[r].pc = "done"

\* C31: a login or a password reset that succeeds adds exactly one event to
\* the audit log, in the step that ends it, after its write to the account,
\* and the event names the user who logged in or whose password was reset;
\* one that fails adds none.
C31_OneAuditEventWithActor ==
  [][/\ \A r \in AuthSlots :
          (AuthFinishes(r) /\ authCalls'[r].op \in {"login", "reset"}) =>
            IF authCalls'[r].status < 400 /\ consoleErrors' = consoleErrors
            THEN /\ Len(auditLogEvents') = Len(auditLogEvents) + 1
                 /\ auditLogEvents'[Len(auditLogEvents')].actorUserId =
                      authCalls'[r].userId
                 /\ authCalls'[r].op = "reset" =>
                      usersById'[authCalls'[r].userId].passwordHash =
                        argon2hash(authCalls'[r].password)
            ELSE Len(auditLogEvents') = Len(auditLogEvents)
      /\ (\A other \in AuthSlots : ~AuthFinishes(other)) =>
           auditLogEvents' = auditLogEvents]_vars

\* The account is locked at an instant: its lockoutUntil is later.
Locked(user, at) == user.lockoutUntil # NoDate /\ user.lockoutUntil > at

\* C32: lockoutAttempts wrong passwords in a row lock the account for
\* lockoutSeconds; while lockoutUntil lies ahead every login for the
\* account, the one with the right password too, is answered 423
\* AUTH_ACCOUNT_LOCKED and changes nothing, and no login lifts the lockout.
C32_LockedOutUntilExpiry ==
  /\ [](\A u \in AuthUsers : authTrail.wrong[u] < lockoutAttempts)
  /\ [][\A r \in AuthSlots :
          LET c == authCalls'[r]
          IN (AuthFinishes(r) /\ c.op = "login" /\ c.userId # "null") =>
               /\ (authCalls[r].pc # "verify" /\ Locked(usersById[c.userId], authNow)) =>
                    /\ c.status = 423
                    /\ c.code = "AUTH_ACCOUNT_LOCKED"
                    /\ usersById' = usersById
               /\ (authCalls[r].pc = "verify"
                     /\ ~argon2verify(c.user.passwordHash, c.password)
                     /\ authTrail.wrong[c.userId] + 1 >= lockoutAttempts) =>
                    /\ c.status = 423
                    /\ usersById'[c.userId].lockoutUntil = c.at + lockoutSeconds
               /\ ~(/\ Locked(usersById[c.userId], authNow)
                     /\ ~Locked(usersById'[c.userId], authNow))]_vars

\* A login with the right password was answered 423 while the account was
\* locked by wrong passwords.
C32_Witness ==
  \E r \in AuthSlots :
    /\ authCalls[r].pc = "done"
    /\ authCalls[r].op = "login"
    /\ authCalls[r].userId \in AuthUsers
    /\ authCalls[r].status = 423
    /\ argon2verify(usersById[authCalls[r].userId].passwordHash,
                    authCalls[r].password)
    /\ Locked(usersById[authCalls[r].userId], authNow)

\* The password changes made with a reset token so far.
ResetsWith(token) ==
  Cardinality({i \in DOMAIN authTrail.resets : authTrail.resets[i] = token})

\* The token cannot be used any more: it was used, it has expired, or the
\* repository holds no such token.
Spent(token) ==
  LET h == hashResetToken(token)
  IN \/ h \notin DOMAIN passwordResetTokensByHash
     \/ passwordResetTokensByHash[h].usedAt # NoDate
     \/ passwordResetTokensByHash[h].expiresAt < authNow

\* C33: no reset token changes a password twice, also when resets with the
\* same token overlap; a reset with a token that was used or has expired is
\* answered 400 AUTH_RESET_TOKEN_INVALID and leaves the accounts as they
\* are; a used token stays used.
C33_ResetTokenOneTimeUse ==
  /\ [](\A token \in ResetTokens : ResetsWith(token) <= 1)
  /\ [][/\ \A r \in AuthSlots :
             LET c == authCalls'[r]
             IN (authCalls[r].pc \in {"idle", "done"} /\ c # authCalls[r]
                   /\ c.op = "reset" /\ Spent(c.token)) =>
                  /\ c.pc = "done"
                  /\ c.status = 400
                  /\ c.code = "AUTH_RESET_TOKEN_INVALID"
                  /\ usersById' = usersById
        /\ \A h \in DOMAIN passwordResetTokensByHash :
             (passwordResetTokensByHash[h].usedAt # NoDate
                /\ h \in DOMAIN passwordResetTokensByHash') =>
               passwordResetTokensByHash'[h].usedAt # NoDate]_vars

\* A reset with a token that had changed the password before was refused.
C33_Witness ==
  \E r \in AuthSlots :
    /\ authCalls[r].pc = "done"
    /\ authCalls[r].op = "reset"
    /\ authCalls[r].code = "AUTH_RESET_TOKEN_INVALID"
    /\ ResetsWith(authCalls[r].token) = 1

\* C38: after a lockout has run out, a wrong password that is not yet the
\* lockoutAttempts-th wrong one in a row since that lockout is answered 401
\* and does not lock the account again.
C38_AttemptsCountAfreshAfterLockout ==
  [][\A r \in AuthSlots :
       LET c == authCalls'[r]
       IN (/\ AuthFinishes(r) /\ authCalls[r].pc = "verify"
           /\ ~argon2verify(c.user.passwordHash, c.password)
           /\ c.user.lockoutUntil # NoDate
           /\ ~Locked(c.user, c.at)
           /\ authTrail.wrong[c.userId] + 1 < lockoutAttempts) =>
            /\ c.code = "AUTH_INVALID_CREDENTIALS"
            /\ usersById'[c.userId].lockoutUntil = NoDate]_vars

\* C34: with update requests of one incident in flight together, no step
\* changes the stored status of an incident except along an edge of the
\* transition table, and none changes it once it is closed.
C34_ConcurrentUpdatesFollowTable ==
  [][\A i \in DOMAIN incidentsById \cap DOMAIN incidentsById' :
       \/ incidentsById'[i].status = incidentsById[i].status
       \/ /\ incidentsById[i].status # "closed"
          /\ <<incidentsById[i].status, incidentsById'[i].status>> \in TableEdges]_vars

\* C35: with as many quota consumptions of a tenant in flight as there are
\* request slots, the usage events of the tenant inside the window that
\* ends now never number more than its dailyWriteLimit plus the slots
\* minus one.
C35_OvershootBelowInFlight ==
  \A t \in Tenants :
    quotasByTenantId[t] # 0 =>
      UsedNow(t) <= quotasByTenantId[t] + Cardinality(Slots) - 1

\* Every slot's request was admitted and the tenant stands at its limit
\* plus the slots minus one.
C35_Witness ==
  \E t \in Tenants :
    /\ quotasByTenantId[t] # 0
    /\ UsedNow(t) = quotasByTenantId[t] + Cardinality(Slots) - 1
    /\ \A r \in Slots : requests[r].tenantId = t /\ Did(requests[r], "quota")

\* The tenant has a member whose role is Owner.
HasOwner(tenantId) == \E u \in Users : RoleOf(tenantId, u) = "Owner"

\* C36: in a tenant that exists a user becomes Owner only by accepting an
\* invite for the Owner role that an Owner of that tenant sent: nobody else
\* can make themselves or another user an Owner.
C36_OwnerOnlyThroughOwners ==
  [][\A t \in AllTenants, u \in Users :
       (t \in tenantsById /\ RoleOf(t, u) # "Owner" /\ RoleOf(t, u)' = "Owner") =>
         \E i \in DOMAIN invitesById :
           /\ invitesById[i].tenantId = t
           /\ invitesById[i].role = "Owner"
           /\ invitesById[i].email = UserEmail(u)
           /\ RoleOf(t, invitesById[i].invitedByUserId) = "Owner"]_vars

\* C37: a tenant is created with an Owner, and no step leaves a tenant that
\* had an Owner without one.
C37_TenantKeepsAnOwner ==
  [][\A t \in AllTenants :
       /\ (t \in tenantsById' /\ t \notin tenantsById) => HasOwner(t)'
       /\ (t \in tenantsById /\ HasOwner(t)) => HasOwner(t)']_vars

\* C40: through IncidentService.createStatusUpdate a member with org role
\* Responder publishes an external status update on an incident when they
\* hold the IC or CL incident role on it, and is denied when they hold
\* neither: a Responder's external status update on an existing incident
\* passes the permission check exactly when the Responder holds IC or CL.
C40_ResponderPublishesWithIncidentRole ==
  \A r \in Slots :
    LET q == requests[r]
    IN (/\ q.op.kind = "createStatusUpdate"
        /\ q.op.audience = "external"
        /\ q.membership = "Responder"
        /\ Did(q, "exists")
        /\ q.pc \in {"audit", "done"}) =>
          /\ q.op.incidentRoles \cap {"IC", "CL"} # {} =>
                /\ Did(q, "write")
                /\ q.pc = "done" => q.result.status = 201
          /\ q.op.incidentRoles \cap {"IC", "CL"} = {} =>
                /\ ~Did(q, "write")
                /\ q.result.status = 403

\* The request in the slot got past every permission assertion.
Allowed(q) == Did(q, "write") \/ Did(q, "read")

\* C39: a request authenticated by an api key is authorized with the
\* current org role of the service account's owner in the key's tenant: it
\* reaches the service as the key's owner in the key's tenant, the role it
\* is judged by is the owner's membership as the tenant repository holds it
\* when the service looks it up for this request (no membership: 404), also
\* after an invite acceptance has changed the role, and it is allowed only
\* actions that role is allowed.
C39_KeyUsesOwnersCurrentRole ==
  [][\A r \in Slots :
       LET q == requests[r]
           after == requests'[r]
       IN /\ (q.pc \in {"idle", "done"} /\ after.pc \notin {"idle", "done"}) =>
               /\ http.found \in DOMAIN apiKeysById
               /\ after.userId = apiKeysById[http.found].ownerUserId
               /\ after.tenantId = apiKeysById[http.found].tenantId
          /\ (q.pc = "membership" /\ after.pc # "membership" /\ q.op.valid) =>
               IF getMembership(q.tenantId, q.userId)' = "null"
               THEN after.result.status = 404
               ELSE after.membership = getMembership(q.tenantId, q.userId)'
          /\ (~Allowed(q) /\ Allowed(after)) =>
               \A i \in DOMAIN requiredActions(q.op) :
                 assertAuthorized(requiredActions(q.op)[i], q.membership)]_vars

\* The owner of the key was Owner of tA when the key was created, accepted
\* an invite as Viewer, and a later request with the key is denied.
C39_Witness ==
  /\ apiKeysById # <<>>
  /\ invitesById # <<>>
  /\ invitesById[1].acceptedAt # -1
  /\ requests[1].tenantId = "tA"
  /\ requests[1].membership = "Viewer"
  /\ requests[1].op.kind = "createIncident"
  /\ requests[1].result.status = 403

TypeOK ==
  /\ now \in Times
  /\ \A r \in Slots : requests[r].pc \in
       {"idle", "quota_read", "quota_write", "membership", "find", "find_task",
        "apply", "audit", "done"}

====
